---- MODULE Spec2Model ----
(***************************************************************************)
(* Model of the retrieval-augmented SQL synthesis loop (agent.py) and of   *)
(* the knowledge store it shares with the acquisition workers              *)
(* (src/knowledge_base.py).                                                *)
(*                                                                         *)
(* Texts (LLM completions, SQL candidates) are sequences of tokens; each   *)
(* token stands for the literal string it is written as, and a text is the *)
(* concatenation of its tokens.                                            *)
(***************************************************************************)
EXTENDS Integers, Sequences, FiniteSets, TLC

(***************************************************************************)
(* Bounds of the model and constants of the program.                       *)
(***************************************************************************)
\* agent.py:85  max_retries = 3
max_retries == 3

\* knowledge_base.py:92  def search(self, prompt, k=3)
DefaultK == 3

\* at most this many records are added to one collection of the store
MaxRecords == 2

\* at most this many learn calls are made on the synthesis path
MaxLearn == 1

\* the largest k a direct caller of KnowledgeBase.search passes
MaxK == 2

\* iterations of ExpertMiner.mine that are followed
MaxIter == 2

\* run_mission calls that are followed
MaxMissions == 2

\* longest completion, in tokens, of those enumerated for the extraction chain
MaxLen == 4

\* Trainer(target_per_level): the target followed
target_per_level == 2

\* the pairs the teacher model comes up with before it repeats itself
MaxPairs == 11

(***************************************************************************)
(* Texts.                                                                  *)
(***************************************************************************)
\* the token of a code fence, three backquotes
Fence == "FENCE"

\* a whitespace character
IsWs(t) == t \in {" ", "\n"}

\* str.upper() on one token
Upper(t) ==
    CASE t = "select" -> "SELECT"
      [] t = "with" -> "WITH"
      [] t = "sql" -> "SQL"
      [] t = "sure" -> "SURE"
      [] t = "Sure" -> "SURE"
      [] OTHER -> t

\* str.lstrip(): the whitespace characters at the start go, whole tokens of
\* them and those at the start of the first token that stays
RECURSIVE LStrip(_)
LStrip(s) ==
    LET RECURSIVE Cut(_)
        Cut(t) == IF Len(t) > 0 /\ IsWs(SubSeq(t, 1, 1))
                  THEN Cut(SubSeq(t, 2, Len(t))) ELSE t
    IN  IF s = <<>>
        THEN <<>>
        ELSE IF Cut(Head(s)) = ""
             THEN LStrip(Tail(s))
             ELSE <<Cut(Head(s))>> \o Tail(s)

\* str.rstrip(): the same at the end
RECURSIVE RStrip(_)
RStrip(s) ==
    LET RECURSIVE Cut(_)
        Cut(t) == IF Len(t) > 0 /\ IsWs(SubSeq(t, Len(t), Len(t)))
                  THEN Cut(SubSeq(t, 1, Len(t) - 1)) ELSE t
    IN  IF s = <<>>
        THEN <<>>
        ELSE IF Cut(s[Len(s)]) = ""
             THEN RStrip(SubSeq(s, 1, Len(s) - 1))
             ELSE SubSeq(s, 1, Len(s) - 1) \o <<Cut(s[Len(s)])>>

\* str.strip()
Strip(s) == RStrip(LStrip(s))

\* s.upper().startswith(kw), kw one of the upper-case keywords
StartsWithUpper(s, kw) == s # <<>> /\ Upper(s[1]) = kw

\* agent.py:129-130: a completion that does not start with SELECT or WITH is
\* taken as the continuation of the trailing SELECT
PrependSelect(sql) ==
    IF ~StartsWithUpper(Strip(sql), "SELECT") /\ ~StartsWithUpper(Strip(sql), "WITH")
    THEN <<"SELECT", " ">> \o sql
    ELSE sql

FencePositions(s) == {i \in 1..Len(s) : s[i] = Fence}

MinOf(S) == CHOOSE m \in S : \A n \in S : m <= n

\* agent.py:134: re.search of FENCE (?:sql)? \s* (.*?) \s* FENCE, DOTALL|IGNORECASE
HasFencedBlock(s) == Cardinality(FencePositions(s)) >= 2

\* mutant: the tag stays in the block
FencedBlockWithTag(s) ==
    LET open  == MinOf(FencePositions(s))
        close == MinOf({i \in FencePositions(s) : i > open})
    IN  Strip(SubSeq(s, open + 1, close - 1))

\* group(1) of that match: the text between the first fence and the next one,
\* without an "sql" tag right after the opening fence and without the
\* whitespace around it
FencedBlock(s) ==
    LET open  == MinOf(FencePositions(s))
        close == MinOf({i \in FencePositions(s) : i > open})
        inner == SubSeq(s, open + 1, close - 1)
        untag == IF inner # <<>> /\ Upper(inner[1]) = "SQL" THEN Tail(inner) ELSE inner
    IN  Strip(untag)

\* the openers of agent.py:142 that the token alphabet holds
IsFiller(t) == Upper(t) = "SURE"

\* agent.py:142: re.sub(r'^(Here is the SQL|Sure|...).*?:', '', sql, IGNORECASE|DOTALL)
StripPreamble(s) ==
    LET colons == {i \in 1..Len(s) : s[i] = ":"}
    IN  IF s # <<>> /\ IsFiller(s[1]) /\ colons # {}
        THEN SubSeq(s, MinOf(colons) + 1, Len(s))
        ELSE s

\* agent.py:134-142
CleanSql(sql) ==
    IF HasFencedBlock(sql)
    THEN FencedBlock(sql)
    ELSE Strip(StripPreamble(Strip(sql)))

\* agent.py:126-144: the candidate made of one completion
ExtractSql(content) == CleanSql(PrependSelect(content))

(***************************************************************************)
(* The inputs: questions, completions of the LLM, diagnostics of the       *)
(* engine, and what the embedding provider answers.                        *)
(***************************************************************************)
Prompts == {"q1", "q2"}

\* what client.chat may answer: nothing, the continuation of the trailing
\* SELECT, a fenced and tagged statement
Completions ==
    { <<>>,
      <<" ", "x">>,
      <<Fence, "sql", "\n", "WITH", " ", "x", "\n", Fence>> }

\* str(e) of what con.execute raises
EngineErrors == {"Binder Error"}

\* Python's None
None == "None"

\* the vector the embedding model gives a text (nomic-embed-text is a function
\* of its input)
Embedding(text) ==
    CASE text = "q1" -> <<0, 0>>
      [] text = "q2" -> <<2, 0>>
      [] text = "test" -> <<0, 1>>
      [] OTHER -> <<1, 1>>

\* squared L2 distance, the metric of a LanceDB table without an index
Distance(v, w) ==
    LET Sq(i) == (v[i] - w[i]) * (v[i] - w[i])
        RECURSIVE Sum(_)
        Sum(i) == IF i = 0 THEN 0 ELSE Sq(i) + Sum(i - 1)
    IN  Sum(IF Len(v) < Len(w) THEN Len(v) ELSE Len(w))

\* mutant: the first k rows of the table, whatever their distance
SearchTableUnordered(rows, query_vec, k) ==
    SubSeq(rows, 1, IF k < Len(rows) THEN k ELSE Len(rows))

\* tbl.search(query_vec).limit(k).to_list(): the k nearest rows, nearest first,
\* rows at equal distance in the order of insertion
SearchTable(rows, query_vec, k) ==
    LET n == Len(rows)
        d == [i \in 1..n |-> Distance(rows[i].vector, query_vec)]
        rank == [i \in 1..n |->
                   Cardinality({j \in 1..n : d[j] < d[i] \/ (d[j] = d[i] /\ j < i)}) + 1]
        m == IF k < n THEN k ELSE n
    IN  [r \in 1..m |-> rows[CHOOSE i \in 1..n : rank[i] = r]]

(***************************************************************************)
(* State.                                                                  *)
(***************************************************************************)
VARIABLES
    \* the vector store on disk (data/lancedb), shared by every KnowledgeBase
    tableNames,         \* db.table_names()
    learned,            \* rows of "learned_queries"
    docs,               \* rows of "documentation"
    \* QueryWriter
    kb,                 \* self.kb: "unset" before __init__, then None or "KB"
    pc,                 \* where the caller of QueryWriter stands
    prompt,             \* generate_query's argument
    rag_context,
    current_attempt,
    error_history,
    last_generated_sql,
    full_prompt,
    sql,
    error_msg,
    openConns,          \* duckdb connections opened by _validate_sql, not closed
    result,             \* what generate_query gave its caller
    \* history of the run, for the properties
    searchOutcome,      \* "skipped", "raised" or "returned"
    attempts,           \* per attempt: the prompt, the LLM's answer, the verdict
    llmCalls,           \* client.chat calls of the run
    validatorCalls,     \* _validate_sql calls of the run
    learnOutcome,       \* of the last learn call
    learnCalls,         \* learn calls made so far
    \* the callers of KnowledgeBase: the synthesis path and the workers
    call,               \* per caller: the call it is in and where it stands
    ret,                \* what the last call that ended gave, and to whom
    \* a KnowledgeBase whose provider is not held to one vector length
    dim,                \* self.dim, 0 before __init__
    compared_vec,       \* the last query vector a table compared with its rows
    \* the acquisition program that runs
    prog,               \* "none", "miner" (expert_miner.py) or "orchestra"
    apc,                \* where its loop stands
    iteration,          \* ExpertMiner.mine: iteration
    missions,           \* SQLAgent.run_mission calls started
    seen_urls,          \* ExpertMiner.seen_urls
    hits,               \* the search results not yet visited
    url,
    page_content,       \* resp.text of the page at hand
    sql_blocks,         \* the blocks of the page not yet visited
    cand,               \* the candidate at hand and what was done with it
    fetches,            \* per URL: the requests.get calls made for it
    \* the worker pool of SQLOrchestra
    started,            \* threads that SQLOrchestra.start has started, 0 before
    queue,              \* SQLOrchestra.queue
    agent,              \* per worker thread: where it stands and the topic it holds
    \* the extraction chain of generate_query on its own
    chain,              \* a completion, the candidate made of it, and of it again
    \* a manual ingestion script (ingest_manual_docs.py, ingest_schema_rules.py)
    script,             \* where it stands, its kb.docs_table, the rows it found
    \* trainer.py
    trainer             \* Trainer.train: where it stands, its counters, seen_hashes

qwVars == <<kb, pc, prompt, rag_context, current_attempt, error_history,
            last_generated_sql, full_prompt, sql, error_msg, openConns, result,
            searchOutcome, attempts, llmCalls, validatorCalls, learnOutcome,
            learnCalls>>

storeVars == <<tableNames, learned, docs>>

kbVars == <<call, ret>>

\* the KnowledgeBase of a process whose embedding provider may answer anything
embVars == <<dim, compared_vec>>

\* the acquisition programs (expert_miner.py, sql_orchestra.py)
acqVars == <<prog, apc, iteration, missions, seen_urls, hits, url, page_content, sql_blocks,
             cand, fetches>>

\* the worker pool of sql_orchestra.py
poolVars == <<started, queue, agent>>

\* what the actions of the earlier sections leave alone
xVars == <<poolVars, chain, script, trainer>>

\* what the pool leaves alone, and what a mission that learns leaves alone
outsidePool == <<storeVars, qwVars, kbVars, embVars, acqVars, chain, script, trainer>>

besideLearning == <<docs, qwVars, kbVars, embVars, acqVars, chain, script, trainer>>

\* what the extraction chain leaves alone
outsideChain == <<storeVars, qwVars, kbVars, embVars, acqVars, poolVars, script, trainer>>

bgVars == <<embVars, acqVars, xVars>>

vars == <<storeVars, qwVars, kbVars, bgVars>>

EmptyRag == [learned |-> <<>>, docs |-> <<>>]

NoResult == [kind |-> "none", value |-> <<>>]

SchemaText == "Table staffs: staff_id (INTEGER)"

\* the synthesis path (QueryWriter.learn) and two acquisition workers, each
\* with a KnowledgeBase of its own on the one store
Workers == {"w1", "w2"}

Callers == {"qw"} \cup Workers

Idle == [pc |-> "idle"]

NoReturn == [caller |-> "none", op |-> "none", outcome |-> "none", value |-> <<>>]

(***************************************************************************)
(* KnowledgeBase (src/knowledge_base.py).                                  *)
(***************************************************************************)
\* knowledge_base.py:93
EmptyResults == [learned |-> <<>>, docs |-> <<>>]

\* mutant: a table is opened without asking whether it exists
SearchCollectionUnchecked(name, rows, query_vec, k) ==
    IF name \in tableNames
    THEN [outcome |-> "ok", value |-> SearchTable(rows, query_vec, k)]
    ELSE [outcome |-> "TableNotFoundError", value |-> <<>>]

\* knowledge_base.py:96-99 and 101-104: one collection's part of a search:
\* the table is opened and searched if its name is among the table names
SearchCollection(name, rows, query_vec, k) ==
    [outcome |-> "ok",
     value   |-> IF name \in tableNames THEN SearchTable(rows, query_vec, k) ELSE <<>>]

\* knowledge_base.py:96-106 with no other caller at work: the two parts, one
\* after the other on the same store
SearchResults(query_vec, k) ==
    [learned |-> SearchCollection("learned_queries", learned, query_vec, k).value,
     docs    |-> SearchCollection("documentation", docs, query_vec, k).value]

\* knowledge_base.py:92-106: what search(prompt, k) may come to when no other
\* caller is at work: the embedding call raises, or the results are returned
KBSearch(p, k) ==
    { [outcome |-> "EmbedError", value |-> EmptyResults],
      [outcome |-> "ok", value |-> SearchResults(Embedding(p), k)] }

\* knowledge_base.py:82-83: the row of one learned query
LearnedRow(p, s) == [prompt |-> p, sql |-> s, vector |-> Embedding(p)]

AddReturn(c, outcome, row) ==
    [caller |-> c, op |-> "add", outcome |-> outcome, value |-> row]

\* knowledge_base.py:82-83: the embedding call of add_learned_query; it raises,
\* or the row to store is made
AddLearnedQueryBegin(c, p, s) ==
    \/ /\ call' = [call EXCEPT ![c] = Idle]
       /\ ret' = AddReturn(c, "EmbedError", LearnedRow(p, s))
    \/ /\ call' = [call EXCEPT ![c] =
                    [pc |-> "add_check", row |-> LearnedRow(p, s)]]
       /\ ret' = NoReturn

\* knowledge_base.py:85: "learned_queries" in self.db.table_names()
AddCheck(c) ==
    /\ call[c].pc = "add_check"
    /\ call' = [call EXCEPT ![c].pc =
                  IF "learned_queries" \in tableNames THEN "add_open" ELSE "add_create"]
    /\ UNCHANGED <<storeVars, qwVars, ret>>
    /\ UNCHANGED bgVars

\* mutant: a row the table holds already is not added again
TableAddDistinct(rows, data) ==
    IF \E i \in 1..Len(rows) : rows[i] = data[1] THEN rows ELSE rows \o data

\* table.add(data): the rows of the table afterwards
TableAdd(rows, data) == rows \o data

\* knowledge_base.py:86-87: open_table and add
AddOpen(c) ==
    /\ call[c].pc = "add_open"
    /\ learned' = TableAdd(learned, <<call[c].row>>)
    /\ call' = [call EXCEPT ![c] = Idle]
    /\ ret' = AddReturn(c, "ok", call[c].row)
    /\ UNCHANGED <<tableNames, docs, qwVars>>
    /\ UNCHANGED bgVars

\* db.create_table(name, data) in its default mode: the table is made of the
\* data, and the call raises when a table of that name exists
CreateTableRaises(name) == name \in tableNames

\* knowledge_base.py:89
AddCreate(c) ==
    /\ call[c].pc = "add_create"
    /\ IF CreateTableRaises("learned_queries")
       THEN /\ ret' = AddReturn(c, "TableExistsError", call[c].row)
            /\ UNCHANGED storeVars
       ELSE /\ tableNames' = tableNames \cup {"learned_queries"}
            /\ learned' = <<call[c].row>>
            /\ ret' = AddReturn(c, "ok", call[c].row)
            /\ UNCHANGED docs
    /\ call' = [call EXCEPT ![c] = Idle]
    /\ UNCHANGED qwVars
    /\ UNCHANGED bgVars

\* len(text) of the code texts a page may hold
TextLen(text) ==
    CASE text = "SELECT 1" -> 8
      [] text = "SELECT * FROM t WHERE c > 1" -> 27
      [] text = "FROM t SELECT c, count(*)" -> 25
      [] OTHER -> 0

DocsUrl == "https://duckdb.org/docs/sql/query_syntax/select"

\* the code elements of the page, as requests.get and BeautifulSoup give them
Pages ==
    { <<"SELECT 1">>,
      <<"SELECT 1", "SELECT * FROM t WHERE c > 1">>,
      <<"SELECT * FROM t WHERE c > 1", "FROM t SELECT c, count(*)">> }

\* knowledge_base.py:68: filtering noise
IsNoise(text) == ~(TextLen(text) > 10)

DocRow(text, source) == [text |-> text, source |-> source, vector |-> Embedding(text)]

\* knowledge_base.py:65-69
DocContent(page) ==
    LET kept == SelectSeq(page, LAMBDA t : ~IsNoise(t))
    IN  [i \in 1..Len(kept) |-> DocRow(kept[i], DocsUrl)]

IngestReturn(c, outcome, n) ==
    [caller |-> c, op |-> "ingest", outcome |-> outcome, value |-> [added |-> n]]

\* knowledge_base.py:59-71, 78-79: the page is fetched and its code embedded;
\* a failing fetch or embedding call is caught, a status other than 200 or a
\* page with no content ends the call
IngestDocsBegin(c) ==
    /\ call[c].pc = "idle"
    /\ \/ /\ call' = call
          /\ ret' = IngestReturn(c, "failed", 0)
       \/ /\ call' = call
          /\ ret' = IngestReturn(c, "ok", 0)
       \/ \E page \in Pages :
             /\ Len(docs) + Len(DocContent(page)) <= MaxRecords
             /\ IF DocContent(page) # <<>>
                THEN /\ call' = [call EXCEPT ![c] =
                                   [pc |-> "ingest_check", content |-> DocContent(page)]]
                     /\ ret' = NoReturn
                ELSE /\ call' = call
                     /\ ret' = IngestReturn(c, "ok", 0)
    /\ UNCHANGED <<storeVars, qwVars>>
    /\ UNCHANGED bgVars

\* knowledge_base.py:72
IngestDocsCheck(c) ==
    /\ call[c].pc = "ingest_check"
    /\ call' = [call EXCEPT ![c].pc =
                  IF "documentation" \in tableNames THEN "ingest_open" ELSE "ingest_create"]
    /\ UNCHANGED <<storeVars, qwVars, ret>>
    /\ UNCHANGED bgVars

\* knowledge_base.py:73-74, 77
IngestDocsOpen(c) ==
    /\ call[c].pc = "ingest_open"
    /\ docs' = TableAdd(docs, call[c].content)
    /\ call' = [call EXCEPT ![c] = Idle]
    /\ ret' = IngestReturn(c, "ok", Len(call[c].content))
    /\ UNCHANGED <<tableNames, learned, qwVars>>
    /\ UNCHANGED bgVars

\* knowledge_base.py:76-79: what create_table raises is caught
IngestDocsCreate(c) ==
    /\ call[c].pc = "ingest_create"
    /\ IF CreateTableRaises("documentation")
       THEN /\ ret' = IngestReturn(c, "failed", 0)
            /\ UNCHANGED storeVars
       ELSE /\ tableNames' = tableNames \cup {"documentation"}
            /\ docs' = call[c].content
            /\ ret' = IngestReturn(c, "ok", Len(call[c].content))
            /\ UNCHANGED learned
    /\ call' = [call EXCEPT ![c] = Idle]
    /\ UNCHANGED qwVars
    /\ UNCHANGED bgVars

(***************************************************************************)
(* The callers of KnowledgeBase besides QueryWriter: the acquisition       *)
(* workers (sql_orchestra.py:145, expert_miner.py:152) and the scripts.    *)
(***************************************************************************)
\* the SQL an adapter hands over
WorkerSqls == { <<"SELECT", " ", "x">> }

\* rows stored or about to be
LearnedInFlight ==
    Len(learned) + Cardinality({c \in Callers : call[c].pc \in {"add_check", "add_open", "add_create"}})

\* sql_orchestra.py:145: self.kb.add_learned_query(q, sql)
WorkerAdd(c, p, s) ==
    /\ call[c].pc = "idle"
    /\ LearnedInFlight < MaxRecords
    /\ AddLearnedQueryBegin(c, p, s)
    /\ UNCHANGED <<storeVars, qwVars>>
    /\ UNCHANGED bgVars

SearchReturn(c, outcome, p, k, found) ==
    [caller |-> c, op |-> "search", outcome |-> outcome,
     value |-> [prompt |-> p, k |-> k, results |-> found]]

\* knowledge_base.py:93-94: a call of search(prompt, k) by a worker: the
\* results start empty and the prompt is embedded; the embedding call raises,
\* or the call goes on to the collections
WorkerSearch(c, p, k) ==
    /\ call[c].pc = "idle"
    /\ \/ /\ call' = call
          /\ ret' = SearchReturn(c, "EmbedError", p, k, EmptyResults)
       \/ /\ call' = [call EXCEPT ![c] =
                       [pc |-> "search_learned", prompt |-> p, k |-> k,
                        results |-> EmptyResults]]
          /\ ret' = NoReturn
    /\ UNCHANGED <<storeVars, qwVars>>
    /\ UNCHANGED bgVars

\* knowledge_base.py:96-99: the learned_queries part of the search, on the
\* store as it is now
SearchLearned(c) ==
    /\ call[c].pc = "search_learned"
    /\ LET r == SearchCollection("learned_queries", learned,
                                 Embedding(call[c].prompt), call[c].k)
       IN  IF r.outcome = "ok"
           THEN /\ call' = [call EXCEPT ![c].pc = "search_docs",
                                        ![c].results.learned = r.value]
                /\ ret' = ret
           ELSE /\ call' = [call EXCEPT ![c] = Idle]
                /\ ret' = SearchReturn(c, r.outcome, call[c].prompt, call[c].k,
                                       call[c].results)
    /\ UNCHANGED <<storeVars, qwVars>>
    /\ UNCHANGED bgVars

\* knowledge_base.py:101-106: the documentation part, on the store as it is
\* by then, and the return
SearchDocs(c) ==
    /\ call[c].pc = "search_docs"
    /\ LET r == SearchCollection("documentation", docs,
                                 Embedding(call[c].prompt), call[c].k)
       IN  ret' = SearchReturn(c, r.outcome, call[c].prompt, call[c].k,
                               IF r.outcome = "ok"
                               THEN [call[c].results EXCEPT !.docs = r.value]
                               ELSE call[c].results)
    /\ call' = [call EXCEPT ![c] = Idle]
    /\ UNCHANGED <<storeVars, qwVars>>
    /\ UNCHANGED bgVars

(***************************************************************************)
(* QueryWriter (agent.py).                                                 *)
(***************************************************************************)
\* agent.py:12-16 with knowledge_base.py:7: agent imports KnowledgeBase from
\* src.knowledge_base, and src.knowledge_base imports two names from agent.
\* Whichever of the two modules is loaded first, it is half loaded when the
\* other one asks it for a name: the ImportError is caught at agent.py:14 and
\* the name KnowledgeBase of agent is None. This holds for every program of
\* the repository (main.py, trainer.py, expert_miner.py, sql_orchestra.py and
\* the ingestion scripts); those that use a KnowledgeBase import the class
\* from src.knowledge_base themselves.
KnowledgeBase == None

\* agent.py:49-56: what QueryWriter() leaves in self.kb:
\* KnowledgeBase() if KnowledgeBase else None, and None when KnowledgeBase()
\* raises in its calibration call to the embedding provider
QueryWriterKb == IF KnowledgeBase = None THEN {None} ELSE {"KB", None}

\* agent.py:37-56
QueryWriterInit ==
    /\ pc = "new"
    /\ kb' \in QueryWriterKb
    /\ pc' = "idle"
    /\ UNCHANGED <<storeVars, kbVars, prompt, rag_context, current_attempt,
                   error_history, last_generated_sql, full_prompt, sql, error_msg,
                   openConns, result, searchOutcome, attempts, llmCalls, validatorCalls,
                   learnOutcome, learnCalls>>
    /\ UNCHANGED bgVars

\* agent.py:69-77: the retrieval context written from the search results
RagContext(results) ==
    [learned |-> [i \in 1..Len(results.learned) |->
                    <<results.learned[i].prompt, results.learned[i].sql>>],
     docs    |-> [i \in 1..Len(results.docs) |-> results.docs[i].text]]

\* agent.py:63-91: retrieval (a failing search is caught) and the start of
\* the retry loop
GenerateQuery(p) ==
    /\ pc = "idle"
    /\ prompt' = p
    /\ \/ /\ kb = None
          /\ rag_context' = EmptyRag
          /\ searchOutcome' = "skipped"
       \/ /\ kb = "KB"
          /\ \E r \in KBSearch(p, DefaultK) :
                IF r.outcome = "ok"
                THEN /\ rag_context' = RagContext(r.value)
                     /\ searchOutcome' = "returned"
                ELSE /\ rag_context' = EmptyRag
                     /\ searchOutcome' = "raised"
    /\ current_attempt' = 0
    /\ error_history' = <<>>
    /\ last_generated_sql' = <<>>
    /\ attempts' = <<>>
    /\ llmCalls' = 0
    /\ validatorCalls' = 0
    /\ learnOutcome' = "none"
    /\ pc' = "loop"
    /\ UNCHANGED <<storeVars, kbVars, kb, full_prompt, sql, error_msg, openConns,
                   result, learnCalls>>
    /\ UNCHANGED bgVars

\* agent.py:93-111: the loop goes on and the prompt is composed
Compose ==
    /\ pc = "loop"
    /\ current_attempt < max_retries
    /\ full_prompt' = [schema |-> SchemaText, examples |-> rag_context,
                       question |-> prompt, errors |-> error_history]
    /\ pc' = "llm"
    /\ UNCHANGED <<storeVars, kbVars, kb, prompt, rag_context, current_attempt,
                   error_history, last_generated_sql, sql, error_msg, openConns,
                   result, searchOutcome, attempts, llmCalls, validatorCalls,
                   learnOutcome, learnCalls>>
    /\ UNCHANGED bgVars

\* mutant: with the attempts used up, no query is given
ExhaustedReturnsNothing ==
    /\ pc = "loop"
    /\ ~(current_attempt < max_retries)
    /\ result' = [kind |-> "returned", value |-> <<>>]
    /\ pc' = "done"
    /\ UNCHANGED <<storeVars, kbVars, kb, prompt, rag_context, current_attempt,
                   error_history, last_generated_sql, full_prompt, sql, error_msg,
                   openConns, searchOutcome, attempts, llmCalls, validatorCalls,
                   learnOutcome, learnCalls>>
    /\ UNCHANGED bgVars

\* agent.py:93, 163: the attempts are used up
Exhausted ==
    /\ pc = "loop"
    /\ ~(current_attempt < max_retries)
    /\ result' = [kind |-> "returned", value |-> last_generated_sql]
    /\ pc' = "done"
    /\ UNCHANGED <<storeVars, kbVars, kb, prompt, rag_context, current_attempt,
                   error_history, last_generated_sql, full_prompt, sql, error_msg,
                   openConns, searchOutcome, attempts, llmCalls, validatorCalls,
                   learnOutcome, learnCalls>>
    /\ UNCHANGED bgVars

\* the entry of the run's history for the attempt that starts
NewAttempt(llm, completion, candidate) ==
    [index |-> current_attempt + 1, prompt |-> full_prompt, llm |-> llm,
     completion |-> completion, candidate |-> candidate, verdict |-> "none"]

\* mutant: the except clause goes on to the next round without counting it
AfterExceptionNotCounted == current_attempt

\* agent.py:157-160: an exception of the attempt is caught and the attempt counted
AfterException == current_attempt + 1

\* mutant: a raising LLM call is taken for the empty completion
GenerateRaiseAsEmpty ==
    /\ pc = "llm"
    /\ llmCalls' = llmCalls + 1
    /\ \/ /\ sql' = ExtractSql(<<>>)
          /\ last_generated_sql' = sql'
          /\ attempts' = Append(attempts, NewAttempt("raised", <<>>, sql'))
          /\ pc' = "validate"
          /\ UNCHANGED current_attempt
       \/ \E content \in Completions :
             /\ sql' = ExtractSql(content)
             /\ last_generated_sql' = sql'
             /\ attempts' = Append(attempts, NewAttempt("returned", content, sql'))
             /\ pc' = "validate"
             /\ UNCHANGED current_attempt
    /\ UNCHANGED <<storeVars, kbVars, kb, prompt, rag_context, error_history,
                   full_prompt, error_msg, openConns, result, searchOutcome,
                   validatorCalls, learnOutcome, learnCalls>>
    /\ UNCHANGED bgVars

\* agent.py:117-144, 157-160: the LLM call, which raises or gives a completion,
\* and the extraction of the candidate
Generate ==
    /\ pc = "llm"
    /\ llmCalls' = llmCalls + 1
    /\ \/ /\ attempts' = Append(attempts, NewAttempt("raised", <<>>, <<>>))
          /\ current_attempt' = AfterException
          /\ pc' = "loop"
          /\ UNCHANGED <<sql, last_generated_sql>>
       \/ \E content \in Completions :
             /\ sql' = ExtractSql(content)
             /\ last_generated_sql' = sql'
             /\ attempts' = Append(attempts, NewAttempt("returned", content, sql'))
             /\ pc' = "validate"
             /\ UNCHANGED current_attempt
    /\ UNCHANGED <<storeVars, kbVars, kb, prompt, rag_context, error_history,
                   full_prompt, error_msg, openConns, result, searchOutcome,
                   validatorCalls, learnOutcome, learnCalls>>
    /\ UNCHANGED bgVars

SetVerdict(v) == [attempts EXCEPT ![Len(attempts)].verdict = v]

\* agent.py:170: duckdb.connect; when it raises, the exception leaves
\* _validate_sql and is caught at agent.py:157
ValidateConnect ==
    /\ pc = "validate"
    /\ validatorCalls' = validatorCalls + 1
    /\ \/ /\ openConns' = openConns + 1
          /\ pc' = "explain"
          /\ UNCHANGED <<current_attempt, attempts>>
       \/ /\ attempts' = SetVerdict("ConnectError")
          /\ current_attempt' = AfterException
          /\ pc' = "loop"
          /\ UNCHANGED openConns
    /\ UNCHANGED <<storeVars, kbVars, kb, prompt, rag_context, error_history,
                   last_generated_sql, full_prompt, sql, error_msg, result,
                   searchOutcome, llmCalls, learnOutcome, learnCalls>>
    /\ UNCHANGED bgVars

\* agent.py:171-176: EXPLAIN of the candidate: None, or the text of what it raised
ValidateExplain ==
    /\ pc = "explain"
    /\ error_msg' \in {None} \cup EngineErrors
    /\ attempts' = SetVerdict(error_msg')
    /\ pc' = "close"
    /\ UNCHANGED <<storeVars, kbVars, kb, prompt, rag_context, current_attempt,
                   error_history, last_generated_sql, full_prompt, sql, openConns,
                   result, searchOutcome, llmCalls, validatorCalls, learnOutcome,
                   learnCalls>>
    /\ UNCHANGED bgVars

\* mutant: the connection is not closed
CloseConnectionSkipped(n) == n

\* con.close(): the connections left open
CloseConnection(n) == n - 1

\* agent.py:177-178: finally: con.close()
ValidateClose ==
    /\ pc = "close"
    /\ openConns' = CloseConnection(openConns)
    /\ pc' = "validated"
    /\ UNCHANGED <<storeVars, kbVars, kb, prompt, rag_context, current_attempt,
                   error_history, last_generated_sql, full_prompt, sql, error_msg,
                   result, searchOutcome, attempts, llmCalls, validatorCalls,
                   learnOutcome, learnCalls>>
    /\ UNCHANGED bgVars

\* mutant: the accepted candidate is not returned at once, the loop goes on
AcceptContinues ==
    /\ pc = "validated"
    /\ error_msg = None
    /\ current_attempt' = current_attempt + 1
    /\ pc' = "loop"
    /\ UNCHANGED <<storeVars, kbVars, kb, prompt, rag_context, error_history,
                   last_generated_sql, full_prompt, sql, error_msg, openConns, result,
                   searchOutcome, attempts, llmCalls, validatorCalls, learnOutcome,
                   learnCalls>>
    /\ UNCHANGED bgVars

\* agent.py:148-149
Accept ==
    /\ pc = "validated"
    /\ error_msg = None
    /\ result' = [kind |-> "returned", value |-> sql]
    /\ pc' = "done"
    /\ UNCHANGED <<storeVars, kbVars, kb, prompt, rag_context, current_attempt,
                   error_history, last_generated_sql, full_prompt, sql, error_msg,
                   openConns, searchOutcome, attempts, llmCalls, validatorCalls,
                   learnOutcome, learnCalls>>
    /\ UNCHANGED bgVars

\* mutant: the entry numbers the attempts from 0
ErrorEntryFromZero == <<current_attempt, sql, error_msg>>

\* agent.py:153: the entry added to error_history
ErrorEntry == <<current_attempt + 1, sql, error_msg>>

\* agent.py:150-160
Retry ==
    /\ pc = "validated"
    /\ error_msg # None
    /\ error_history' = Append(error_history, ErrorEntry)
    /\ current_attempt' = current_attempt + 1
    /\ pc' = "loop"
    /\ UNCHANGED <<storeVars, kbVars, kb, prompt, rag_context, last_generated_sql,
                   full_prompt, sql, error_msg, openConns, result, searchOutcome,
                   attempts, llmCalls, validatorCalls,
                   learnOutcome, learnCalls>>
    /\ UNCHANGED bgVars

\* generate_query has returned and its caller is done with the value: the
\* locals of the call are gone
DiscardFrame ==
    /\ prompt' = "q1"
    /\ rag_context' = EmptyRag
    /\ current_attempt' = 0
    /\ error_history' = <<>>
    /\ last_generated_sql' = <<>>
    /\ full_prompt' = [schema |-> SchemaText, examples |-> EmptyRag,
                       question |-> "q1", errors |-> <<>>]
    /\ sql' = <<>>
    /\ error_msg' = None
    /\ result' = NoResult
    /\ searchOutcome' = "skipped"
    /\ attempts' = <<>>
    /\ llmCalls' = 0
    /\ validatorCalls' = 0

\* mutant: learn does not test self.kb
LearnUnguarded ==
    /\ pc = "done"
    /\ learnCalls < MaxLearn
    /\ learnCalls' = learnCalls + 1
    /\ IF kb = "KB"
       THEN /\ AddLearnedQueryBegin("qw", prompt, result.value)
            /\ pc' = "learning"
            /\ UNCHANGED learnOutcome
       ELSE /\ learnOutcome' = "AttributeError"
            /\ pc' = "idle"
            /\ UNCHANGED kbVars
    /\ DiscardFrame
    /\ UNCHANGED <<storeVars, kb, openConns>>
    /\ UNCHANGED bgVars

\* agent.py:180-185, called as in main.py:108 with the question and the SQL
\* that generate_query returned
Learn ==
    /\ pc = "done"
    /\ learnCalls < MaxLearn
    /\ learnCalls' = learnCalls + 1
    /\ IF kb = "KB"
       THEN /\ AddLearnedQueryBegin("qw", prompt, result.value)
            /\ pc' = "learning"
            /\ UNCHANGED learnOutcome
       ELSE /\ learnOutcome' = "noop"
            /\ pc' = "idle"
            /\ UNCHANGED kbVars
    /\ DiscardFrame
    /\ UNCHANGED <<storeVars, kb, openConns>>
    /\ UNCHANGED bgVars

\* add_learned_query returned or raised: so does learn
LearnReturn ==
    /\ pc = "learning"
    /\ call["qw"].pc = "idle"
    /\ ret.caller = "qw"
    /\ learnOutcome' = ret.outcome
    /\ ret' = NoReturn
    /\ pc' = "idle"
    /\ UNCHANGED <<storeVars, call, kb, prompt, rag_context, current_attempt,
                   error_history, last_generated_sql, full_prompt, sql, error_msg,
                   openConns, result, searchOutcome, attempts, llmCalls,
                   validatorCalls, learnCalls>>
    /\ UNCHANGED bgVars

\* main.py:110-111: the caller does not have the query learned
NoLearn ==
    /\ pc = "done"
    /\ pc' = "idle"
    /\ DiscardFrame
    /\ UNCHANGED <<storeVars, kbVars, kb, openConns, learnOutcome, learnCalls>>
    /\ UNCHANGED bgVars

(***************************************************************************)
(* The acquisition programs: ExpertMiner (expert_miner.py) and SQLAgent    *)
(* (sql_orchestra.py).                                                     *)
(***************************************************************************)
\* expert_miner.py:104: the fallback source
FallbackUrl ==
    <<"https://gist.githubusercontent.com/fernandofother/a9bd9dd756e187b545f4/", "raw",
      "/255c2d30836102da83942007f354f9d8548c772e/ADVANCEDSQL-SOLVED", ".sql">>

\* the URL of a page a search may find
PostUrl == <<"https://blog.example/", "window-functions">>

Urls == {PostUrl, FallbackUrl}

(* Texts of the acquisition programs: pages, code blocks, LLM responses.    *)
\* one backquote, what is left of a fence that a cut went through
Backquote == "BACKQUOTE"

\* the characters of a token; the fence is three backquotes
TokenLen(t) == IF t = Fence THEN 3 ELSE IF t = Backquote THEN 1 ELSE Len(t)

\* t[:n] of a token of more than n characters, as a text
TokenPrefix(t, n) ==
    IF t = Fence THEN [i \in 1..n |-> Backquote] ELSE <<SubSeq(t, 1, n)>>

\* s[:n]: the first n characters of a text, the token that the cut goes
\* through kept up to the cut
RECURSIVE Prefix(_, _)
Prefix(s, n) ==
    IF s = <<>> \/ n <= 0
    THEN <<>>
    ELSE IF TokenLen(Head(s)) <= n
         THEN <<Head(s)>> \o Prefix(Tail(s), n - TokenLen(Head(s)))
         ELSE TokenPrefix(Head(s), n)

\* len(s): the characters of a text
RECURSIVE CharLen(_)
CharLen(s) == IF s = <<>> THEN 0 ELSE TokenLen(Head(s)) + CharLen(Tail(s))

\* "".join: the text as one string
RECURSIVE Join(_)
Join(s) == IF s = <<>> THEN "" ELSE Head(s) \o Join(Tail(s))

\* t in s, for a t that is a token of the alphabet
Contains(s, t) == \E i \in 1..Len(s) : s[i] = t

\* t in s.upper()
ContainsUpper(s, t) == \E i \in 1..Len(s) : Upper(s[i]) = t

\* s[s.find(t):] for a t that s holds
From(s, t) == SubSeq(s, MinOf({i \in 1..Len(s) : s[i] = t}), Len(s))

\* s[s.upper().find(t):] for a t that s.upper() holds
FromUpper(s, t) == SubSeq(s, MinOf({i \in 1..Len(s) : Upper(s[i]) = t}), Len(s))

\* the tag after an opening fence: "sql", in any case under re.IGNORECASE
SqlTag(t, ignorecase) == IF ignorecase THEN Upper(t) = "SQL" ELSE t = "sql"

\* where FENCE sql (.*?) FENCE can match: an opening fence with its tag and a
\* fence after them
SqlFenceOpenings(s, ignorecase) ==
    {i \in 1..Len(s) : /\ s[i] = Fence
                       /\ i + 1 <= Len(s)
                       /\ SqlTag(s[i + 1], ignorecase)
                       /\ \E j \in (i + 2)..Len(s) : s[j] = Fence}

\* re.findall(r'FENCE sql(.*?)FENCE', s, re.DOTALL): group 1 of the matches,
\* left to right, without overlap
RECURSIVE FindAllSqlFences(_, _)
FindAllSqlFences(s, ignorecase) ==
    IF SqlFenceOpenings(s, ignorecase) = {}
    THEN <<>>
    ELSE LET open  == MinOf(SqlFenceOpenings(s, ignorecase))
             close == MinOf({j \in (open + 2)..Len(s) : s[j] = Fence})
         IN  <<SubSeq(s, open + 2, close - 1)>>
                \o FindAllSqlFences(SubSeq(s, close + 1, Len(s)), ignorecase)

CodeOpen == "<code>"

CodeClose == "</code>"

\* where the element opened just before position j ends: the position of the
\* end tag that closes it, elements opened inside it closed first, or the
\* position after the text when the element is never closed
RECURSIVE ElementEnd(_, _, _)
ElementEnd(s, j, depth) ==
    IF j > Len(s)
    THEN j
    ELSE IF s[j] = CodeClose
         THEN IF depth = 1 THEN j ELSE ElementEnd(s, j + 1, depth - 1)
         ELSE IF s[j] = CodeOpen
              THEN ElementEnd(s, j + 1, depth + 1)
              ELSE ElementEnd(s, j + 1, depth)

\* the strings bs4 stores for a stretch of a page and get_text() joins: the
\* text between one tag and the next is one string, and a string of
\* whitespace only is stored as one line end if it holds one, else as one
\* space (BeautifulSoup.endData; no pre or textarea is among the tags)
RECURSIVE GetText(_)
GetText(s) ==
    LET IsTag(t)  == t = CodeOpen \/ t = CodeClose
        tags      == {i \in 1..Len(s) : IsTag(s[i])}
        n         == IF tags = {} THEN Len(s) ELSE MinOf(tags) - 1
        string    == SubSeq(s, 1, n)
        stored    == IF Strip(string) # <<>>
                     THEN string
                     ELSE IF \E i \in 1..n : Contains(<<string[i]>>, "\n")
                          THEN <<"\n">>
                          ELSE <<" ">>
    IN  IF s = <<>>
        THEN <<>>
        ELSE IF n = 0
             THEN GetText(Tail(s))
             ELSE stored \o GetText(SubSeq(s, n + 1, Len(s)))

\* soup.find_all('code') and get_text() of each element, under html.parser:
\* the elements in the order of their start tags, an element inside another
\* after it; an end tag with no element open is dropped, and an element
\* that is not closed reaches to the end of the page
CodeElements(s) ==
    LET opens == {i \in 1..Len(s) : s[i] = CodeOpen}
        text(i) == GetText(SubSeq(s, i + 1, ElementEnd(s, i + 1, 1) - 1))
        nth(k) == CHOOSE i \in opens : Cardinality({j \in opens : j < i}) = k - 1
    IN  [k \in 1..Cardinality(opens) |-> text(nth(k))]

\* expert_miner.py:142: a block under this length is not adapted
MinerMinLen == 50

\* sql_orchestra.py:74: a block is kept when longer than this
ScrapeMinLen == 50

\* expert_miner.py:145, sql_orchestra.py:85: the characters of a block that
\* the adapter is shown
AdapterClip == 2000

\* block[:2000]
Clip(block) == Prefix(block, AdapterClip)

\* url.endswith('.sql') or 'raw' in url
IsRawUrl(u) == u[Len(u)] = ".sql" \/ Contains(u, "raw")

\* expert_miner.py:126-137: the blocks of a page
MinerBlocks(u, content) ==
    IF ~ContainsUpper(content, "SELECT")
    THEN <<>>
    ELSE IF IsRawUrl(u) THEN <<content>> ELSE FindAllSqlFences(content, TRUE)

\* mutant: a block of exactly the least length is dropped as well
MinerTooShortOrEqual(block) == CharLen(block) <= MinerMinLen

\* expert_miner.py:142: if len(block) < 50: continue
MinerTooShort(block) == CharLen(block) < MinerMinLen

\* sql_orchestra.py:71: a code element that reads like a query
LooksLikeQuery(text) == ContainsUpper(text, "SELECT") /\ ContainsUpper(text, "FROM")

\* sql_orchestra.py:61-74: the blocks scrape_sql_blocks returns for a page
ScrapeSqlBlocks(content) ==
    LET blocks   == FindAllSqlFences(content, TRUE)
                       \o SelectSeq(CodeElements(content), LooksLikeQuery)
        stripped == [i \in 1..Len(blocks) |-> Strip(blocks[i])]
    IN  SelectSeq(stripped, LAMBDA b : CharLen(b) > ScrapeMinLen)

\* the tail of a statement, 35 characters long
Tail35 == "orders o WHERE o.order_status = 4.0"

\* statements of 49, 50 and 51 characters
Block49 == <<"SELECT", " ", "*", " ", "FROM", " ", Tail35>>

Block50 == Block49 \o <<";">>

Block51 == Block50 \o <<";">>

\* a file of 2001 characters
LongFile == [i \in 1..57 |-> Tail35] \o <<"SELECT">>

\* a code element that holds a statement of 52 characters of which get_text()
\* gives 51: two empty elements in it have two spaces between them
SpacedElement ==
    <<CodeOpen, "SELECT", CodeOpen, CodeClose, " ", " ", CodeOpen, CodeClose>>
        \o SubSeq(Block51, 3, Len(Block51)) \o <<CodeClose>>

\* what requests.get may find at a URL: a post with three fenced statements;
\* a post with a fenced statement of 49 characters between line ends and a
\* code element; a text without a query; a raw SQL file; a long one
PageContents ==
    { <<"Post", "\n", Fence, "sql">> \o Block49 \o <<Fence, "\n", Fence, "SQL">>
          \o Block50 \o <<Fence, "\n", Fence, "sql">> \o Block51 \o <<Fence>>,
      <<Fence, "sql", "\n">> \o Block49 \o <<"\n", Fence>> \o SpacedElement,
      <<"Nothing", " ", "here">>,
      Block50,
      LongFile }

QLabel == "-- QUESTION: "

SLabel == "-- SQL:"

Sentinel == "N/A"

\* what the adapter LLM may answer
Responses ==
    { <<QLabel, "Rank items", "\n", SLabel, " ", "SELECT", " ", "a">>,
      <<QLabel, "Rank items", "\n", SLabel, " ", "SELECT", " ", "a", "\n", Sentinel>>,
      <<QLabel, "Rank items", "\n", SLabel, "\n">>,
      <<"Here:", "\n", Fence, "sql", "\n", "SELECT", " ", "b", "\n", Fence>>,
      <<Fence, "sql", "SELECT", " ", "b", Fence, "\n", SLabel, " ", "SELECT", " ", "a">>,
      <<"SELECT", " ", "c">>,
      <<"Sure:", " ", "SELECT", " ", "c">>,
      <<"VALUES", " ", "1">>,
      <<>> }

\* the adapter gave nothing
NullResult == [null |-> TRUE, question |-> <<>>, sql |-> <<>>]

PairResult(question, stmt) == [null |-> FALSE, question |-> question, sql |-> stmt]

\* mutant: only a response that begins with the sentinel is a decline
DeclinesAtStart(content) == content # <<>> /\ content[1] = Sentinel

\* expert_miner.py:48, sql_orchestra.py:101: "N/A" in content
Declines(content) == Contains(content, Sentinel)

\* re.search(r'-- QUESTION: (.*)', content): the rest of the line, stripped,
\* or the default
QuestionOf(content, default) ==
    IF Contains(content, QLabel)
    THEN LET rest == Tail(From(content, QLabel))
             ends == {i \in 1..Len(rest) : rest[i] = "\n"}
         IN  Strip(IF ends = {} THEN rest ELSE SubSeq(rest, 1, MinOf(ends) - 1))
    ELSE <<default>>

\* re.search(r'-- SQL:(.*)', content, re.DOTALL).group(1).strip()
SqlSection(content) == Strip(Tail(From(content, SLabel)))

\* expert_miner.py:64-68: a statement that does not begin with SELECT or WITH
\* is cut to begin at its first SELECT
MinerCleanSql(stmt) ==
    IF /\ Contains(stmt, "SELECT")
       /\ ~StartsWithUpper(stmt, "SELECT")
       /\ ~StartsWithUpper(stmt, "WITH")
    THEN FromUpper(stmt, "SELECT")
    ELSE stmt

\* expert_miner.py:48-70: what adapt_query makes of the LLM's answer
MinerParse(content) ==
    IF Declines(content)
    THEN NullResult
    ELSE LET question == QuestionOf(content, "Complex Query")
             fenced   == FindAllSqlFences(content, FALSE)
             stmt     == IF Contains(content, SLabel)
                         THEN SqlSection(content)
                         ELSE IF fenced # <<>> THEN Strip(fenced[1]) ELSE content
         IN  PairResult(question, MinerCleanSql(stmt))

\* sql_orchestra.py:101-116: what adapt_and_validate makes of the answer
\* before it runs the statement
OrchParse(response) ==
    IF Declines(response) \/ response = <<>>
    THEN NullResult
    ELSE LET question == QuestionOf(response, "Advanced SQL Logic")
         IN  IF Contains(response, SLabel)
             THEN PairResult(question, SqlSection(response))
             ELSE IF Contains(response, "SELECT")
                  THEN PairResult(question, From(response, "SELECT"))
                  ELSE NullResult

\* db.execute(sql): the statement runs, or the engine raises
ExecuteOutcomes == {"ok", "raise"}

NoCand ==
    [stage |-> "none", block |-> <<>>, llm |-> "none", response |-> <<>>,
     parsed |-> NullResult, returned |-> "none", exec |-> "none", commit |-> "none"]

\* what the web search may give: nothing, one page, two pages
SearchHits == { <<>>, <<PostUrl>>, <<PostUrl, FallbackUrl>> }

\* how a requests.get may end without a page
FetchFailures == {"raise", "status"}

\* the candidate whose block is at hand
NewCand(stage, block) == [NoCand EXCEPT !.stage = stage, !.block = block]

\* self.kb.add_learned_query(question, sql) by the one process that writes:
\* the rows of learned_queries afterwards
Commit(question, stmt) == TableAdd(learned, <<LearnedRow(Join(question), stmt)>>)

(* ExpertMiner (expert_miner.py).                                          *)
\* expert_miner.py:170-171: the miner is built and mine() entered
MinerStart ==
    /\ prog = "none"
    /\ prog' = "miner"
    /\ apc' = "search"
    /\ UNCHANGED <<storeVars, qwVars, kbVars, embVars, xVars, iteration, missions, seen_urls,
                   hits, url, page_content, sql_blocks, cand, fetches>>

\* expert_miner.py:88-104: the search of one iteration; a search that raises
\* leaves no results, and without results the fallback source is taken in
\* every fifth iteration
MinerSearch ==
    /\ prog = "miner"
    /\ apc = "search"
    /\ iteration < MaxIter
    /\ \E found \in SearchHits :
          hits' = IF found # <<>>
                  THEN found
                  ELSE IF iteration % 5 = 0 THEN <<FallbackUrl>> ELSE <<>>
    /\ apc' = "url"
    /\ UNCHANGED <<storeVars, qwVars, kbVars, embVars, xVars, prog, iteration, missions,
                   seen_urls, url, page_content, sql_blocks, cand, fetches>>

\* mutant: the URL is not remembered
MarkSeenNot(u) == seen_urls

\* expert_miner.py:109: self.seen_urls.add(url)
MarkSeen(u) == seen_urls \cup {u}

\* expert_miner.py:106-109, 164-166: the next result, passed over when its
\* URL was seen; after the last one the iteration ends
MinerNextUrl ==
    /\ prog = "miner"
    /\ apc = "url"
    /\ IF hits = <<>>
       THEN /\ iteration' = iteration + 1
            /\ apc' = "search"
            /\ UNCHANGED <<hits, url, seen_urls>>
       ELSE /\ url' = Head(hits)
            /\ hits' = Tail(hits)
            /\ IF Head(hits) \in seen_urls
               THEN /\ apc' = "url"
                    /\ UNCHANGED seen_urls
               ELSE /\ seen_urls' = MarkSeen(Head(hits))
                    /\ apc' = "fetch"
            /\ UNCHANGED iteration
    /\ page_content' = <<>>
    /\ cand' = NoCand
    /\ UNCHANGED <<storeVars, qwVars, kbVars, embVars, xVars, prog, missions, sql_blocks,
                   fetches>>

\* expert_miner.py:114-139, 158-159: requests.get; a failure or a status
\* other than 200 ends the work on the URL
MinerFetch ==
    /\ prog = "miner"
    /\ apc = "fetch"
    /\ \/ \E f \in FetchFailures :
             /\ fetches' = [fetches EXCEPT ![url] = Append(@, f)]
             /\ apc' = "url"
             /\ UNCHANGED <<page_content, sql_blocks>>
       \/ \E content \in PageContents :
             /\ fetches' = [fetches EXCEPT ![url] = Append(@, "page")]
             /\ page_content' = content
             /\ sql_blocks' = MinerBlocks(url, content)
             /\ apc' = "block"
    /\ UNCHANGED <<storeVars, qwVars, kbVars, embVars, xVars, prog, iteration, missions,
                   seen_urls, hits, url, cand>>

\* expert_miner.py:141-145: the next block; a short one is passed over
MinerNextBlock ==
    /\ prog = "miner"
    /\ apc = "block"
    /\ IF sql_blocks = <<>>
       THEN /\ apc' = "url"
            /\ cand' = NoCand
            /\ UNCHANGED sql_blocks
       ELSE /\ sql_blocks' = Tail(sql_blocks)
            /\ IF MinerTooShort(Head(sql_blocks))
               THEN /\ cand' = NewCand("discarded", Head(sql_blocks))
                    /\ apc' = "block"
               ELSE /\ cand' = NewCand("adapt", Clip(Head(sql_blocks)))
                    /\ apc' = "adapt"
    /\ UNCHANGED <<storeVars, qwVars, kbVars, embVars, xVars, prog, iteration, missions,
                   seen_urls, hits, url, page_content, fetches>>

\* expert_miner.py:20-73, 145-156: adapt_query; a chat call that raises gives
\* (None, None); a result without SQL is skipped
MinerAdapt ==
    /\ prog = "miner"
    /\ apc = "adapt"
    /\ \/ /\ cand' = [cand EXCEPT !.stage = "adapted", !.llm = "raised",
                                   !.returned = "null"]
          /\ apc' = "block"
       \/ \E r \in Responses :
             /\ cand' = [cand EXCEPT !.stage = "adapted", !.llm = "returned",
                                      !.response = r, !.parsed = MinerParse(r),
                                      !.returned = IF MinerParse(r).null
                                                   THEN "null" ELSE "pair"]
             /\ apc' = IF MinerParse(r).sql # <<>> THEN "exec" ELSE "block"
    /\ UNCHANGED <<storeVars, qwVars, kbVars, embVars, xVars, prog, iteration, missions,
                   seen_urls, hits, url, page_content, sql_blocks, fetches>>

\* expert_miner.py:149-154: self.db.execute(adapted_sql)
MinerExecute ==
    /\ prog = "miner"
    /\ apc = "exec"
    /\ \E o \in ExecuteOutcomes :
          /\ cand' = [cand EXCEPT !.exec = o]
          /\ apc' = IF o = "ok" THEN "commit" ELSE "block"
    /\ UNCHANGED <<storeVars, qwVars, kbVars, embVars, xVars, prog, iteration, missions,
                   seen_urls, hits, url, page_content, sql_blocks, fetches>>

\* expert_miner.py:152-154: add_learned_query; what it raises is caught with
\* the candidate
MinerCommit ==
    /\ prog = "miner"
    /\ apc = "commit"
    /\ Len(learned) < MaxRecords
    /\ \/ /\ learned' = Commit(cand.parsed.question, cand.parsed.sql)
          /\ tableNames' = tableNames \cup {"learned_queries"}
          /\ cand' = [cand EXCEPT !.commit = "ok"]
       \/ /\ cand' = [cand EXCEPT !.commit = "raise"]
          /\ UNCHANGED <<learned, tableNames>>
    /\ apc' = "block"
    /\ UNCHANGED <<docs, qwVars, kbVars, embVars, xVars, prog, iteration, missions,
                   seen_urls, hits, url, page_content, sql_blocks, fetches>>

(* SQLAgent (sql_orchestra.py).                                            *)
\* sql_orchestra.py:159, 177: the worker thread makes its SQLAgent
OrchStart ==
    /\ prog = "none"
    /\ prog' = "orchestra"
    /\ apc' = "idle"
    /\ UNCHANGED <<storeVars, qwVars, kbVars, embVars, xVars, iteration, missions, seen_urls,
                   hits, url, page_content, sql_blocks, cand, fetches>>

\* sql_orchestra.py:126-132, 148-149: run_mission and its search; a search
\* that raises or finds nothing ends the mission
RunMission ==
    /\ prog = "orchestra"
    /\ apc = "idle"
    /\ missions < MaxMissions
    /\ missions' = missions + 1
    /\ \E found \in SearchHits :
          /\ hits' = found
          /\ apc' = IF found = <<>> THEN "idle" ELSE "url"
    /\ url' = <<>>
    /\ page_content' = <<>>
    /\ sql_blocks' = <<>>
    /\ cand' = NoCand
    /\ UNCHANGED <<storeVars, qwVars, kbVars, embVars, xVars, prog, iteration, seen_urls,
                   fetches>>

\* sql_orchestra.py:134-136: the next result of the mission
OrchNextUrl ==
    /\ prog = "orchestra"
    /\ apc = "url"
    /\ IF hits = <<>>
       THEN /\ apc' = "idle"
            /\ UNCHANGED <<hits, url>>
       ELSE /\ url' = Head(hits)
            /\ hits' = Tail(hits)
            /\ apc' = "fetch"
    /\ page_content' = <<>>
    /\ cand' = NoCand
    /\ UNCHANGED <<storeVars, qwVars, kbVars, embVars, xVars, prog, iteration, missions,
                   seen_urls, sql_blocks, fetches>>

\* sql_orchestra.py:52-77: scrape_sql_blocks; a failure or a status other
\* than 200 gives no blocks
OrchScrape ==
    /\ prog = "orchestra"
    /\ apc = "fetch"
    /\ \/ \E f \in FetchFailures :
             /\ fetches' = [fetches EXCEPT ![url] = Append(@, f)]
             /\ sql_blocks' = <<>>
             /\ UNCHANGED page_content
       \/ \E content \in PageContents :
             /\ fetches' = [fetches EXCEPT ![url] = Append(@, "page")]
             /\ page_content' = content
             /\ sql_blocks' = ScrapeSqlBlocks(content)
    /\ apc' = "block"
    /\ UNCHANGED <<storeVars, qwVars, kbVars, embVars, xVars, prog, iteration, missions,
                   seen_urls, hits, url, cand>>

\* sql_orchestra.py:140-142: the next block of the page
OrchNextBlock ==
    /\ prog = "orchestra"
    /\ apc = "block"
    /\ IF sql_blocks = <<>>
       THEN /\ apc' = "url"
            /\ cand' = NoCand
            /\ UNCHANGED sql_blocks
       ELSE /\ sql_blocks' = Tail(sql_blocks)
            /\ cand' = NewCand("adapt", Clip(Head(sql_blocks)))
            /\ apc' = "adapt"
    /\ UNCHANGED <<storeVars, qwVars, kbVars, embVars, xVars, prog, iteration, missions,
                   seen_urls, hits, url, page_content, fetches>>

\* sql_orchestra.py:44-50, 100-116: think, whose failing chat call gives the
\* empty response, and the parsing of the response
OrchAdapt ==
    /\ prog = "orchestra"
    /\ apc = "adapt"
    /\ \/ /\ cand' = [cand EXCEPT !.stage = "adapted", !.llm = "raised",
                                   !.parsed = OrchParse(<<>>), !.returned = "null"]
          /\ apc' = "block"
       \/ \E r \in Responses :
             /\ cand' = [cand EXCEPT !.stage = "adapted", !.llm = "returned",
                                      !.response = r, !.parsed = OrchParse(r),
                                      !.returned = IF OrchParse(r).null
                                                   THEN "null" ELSE "pending"]
             /\ apc' = IF OrchParse(r).null THEN "block" ELSE "exec"
    /\ UNCHANGED <<storeVars, qwVars, kbVars, embVars, xVars, prog, iteration, missions,
                   seen_urls, hits, url, page_content, sql_blocks, fetches>>

\* sql_orchestra.py:118-124: self.db.execute(sql); the pair is returned when
\* the statement ran
OrchExecute ==
    /\ prog = "orchestra"
    /\ apc = "exec"
    /\ \E o \in ExecuteOutcomes :
          /\ cand' = [cand EXCEPT !.exec = o,
                                   !.returned = IF o = "ok" THEN "pair" ELSE "null"]
          /\ apc' = IF o = "ok" THEN "commit" ELSE "block"
    /\ UNCHANGED <<storeVars, qwVars, kbVars, embVars, xVars, prog, iteration, missions,
                   seen_urls, hits, url, page_content, sql_blocks, fetches>>

\* sql_orchestra.py:143-149: add_learned_query; what it raises is caught
\* outside the loops and ends the mission
OrchCommit ==
    /\ prog = "orchestra"
    /\ apc = "commit"
    /\ Len(learned) < MaxRecords
    /\ \/ /\ learned' = Commit(cand.parsed.question, cand.parsed.sql)
          /\ tableNames' = tableNames \cup {"learned_queries"}
          /\ cand' = [cand EXCEPT !.commit = "ok"]
          /\ apc' = "block"
          /\ UNCHANGED <<hits, sql_blocks>>
       \/ /\ cand' = [cand EXCEPT !.commit = "raise"]
          /\ apc' = "idle"
          /\ hits' = <<>>
          /\ sql_blocks' = <<>>
          /\ UNCHANGED <<learned, tableNames>>
    /\ UNCHANGED <<docs, qwVars, kbVars, embVars, xVars, prog, iteration, missions,
                   seen_urls, url, page_content, fetches>>

(***************************************************************************)
(* KnowledgeBase with an embedding provider that answers vectors of any    *)
(* length (knowledge_base.py:20-51): what __init__ measures and what the   *)
(* methods store and compare.                                              *)
(***************************************************************************)
\* what client.embed may answer
ProviderVectors == { <<0, 0>>, <<1, 0>>, <<0, 0, 0>> }

\* knowledge_base.py:30-34: the calibration call, self.dim = len(...)
KBCalibrate ==
    /\ dim = 0
    /\ \E v \in ProviderVectors : dim' = Len(v)
    /\ UNCHANGED <<storeVars, qwVars, kbVars, compared_vec, acqVars, xVars>>

\* the vector length of a table: its schema is taken from the rows it was
\* created with (knowledge_base.py:76, 89)
TableDim(rows) == Len(rows[1].vector)

\* table.add(data) on an existing table takes rows of the table's length only
TableTakes(rows, data) == \A i \in 1..Len(data) : Len(data[i].vector) = TableDim(rows)

\* create_table(name, data) takes rows of one length only
CreateTakes(data) == \A i, j \in 1..Len(data) : Len(data[i].vector) = Len(data[j].vector)

\* knowledge_base.py:81-90 with the vector the provider answered; the call
\* raises, and stores nothing, when the table does not take the row
EmbAddLearnedQuery(p, s) ==
    /\ dim # 0
    /\ Len(learned) < MaxRecords
    /\ \E v \in ProviderVectors :
          LET data == <<[prompt |-> p, sql |-> s, vector |-> v]>>
          IN  IF "learned_queries" \in tableNames
              THEN /\ learned' = IF TableTakes(learned, data)
                                 THEN TableAdd(learned, data)
                                 ELSE learned
                   /\ UNCHANGED tableNames
              ELSE /\ learned' = data
                   /\ tableNames' = tableNames \cup {"learned_queries"}
    /\ UNCHANGED <<docs, qwVars, kbVars, embVars, acqVars, xVars>>

\* knowledge_base.py:53-79 with the vectors the provider answered
EmbIngestDocs ==
    /\ dim # 0
    /\ \E page \in Pages :
          LET kept == SelectSeq(page, LAMBDA t : ~IsNoise(t))
          IN  /\ kept # <<>>
              /\ Len(docs) + Len(kept) <= MaxRecords
              /\ \E vs \in [1..Len(kept) -> ProviderVectors] :
                    LET content == [i \in 1..Len(kept) |->
                                      [text |-> kept[i], source |-> DocsUrl, vector |-> vs[i]]]
                    IN  IF "documentation" \in tableNames
                        THEN /\ docs' = IF TableTakes(docs, content)
                                        THEN TableAdd(docs, content)
                                        ELSE docs
                             /\ UNCHANGED tableNames
                        ELSE IF CreateTakes(content)
                             THEN /\ docs' = content
                                  /\ tableNames' = tableNames \cup {"documentation"}
                             ELSE UNCHANGED <<docs, tableNames>>
    /\ UNCHANGED <<learned, qwVars, kbVars, embVars, acqVars, xVars>>

\* knowledge_base.py:92-106 with the vector the provider answered: a table
\* compares the query vector with its rows when the lengths agree and raises
\* when they do not
EmbSearch ==
    /\ dim # 0
    /\ \E v \in ProviderVectors :
          LET learnedRaises == "learned_queries" \in tableNames /\ Len(v) # TableDim(learned)
              compared ==
                 \/ "learned_queries" \in tableNames /\ Len(v) = TableDim(learned)
                 \/ /\ ~learnedRaises
                    /\ "documentation" \in tableNames
                    /\ Len(v) = TableDim(docs)
          IN  compared_vec' = IF compared THEN v ELSE compared_vec
    /\ UNCHANGED <<storeVars, qwVars, kbVars, dim, acqVars, xVars>>

(***************************************************************************)
(* The synthesis path: one QueryWriter on a store that may hold             *)
(* documentation from an earlier ingestion.                                *)
(***************************************************************************)
\* the store on disk when the process starts: never written, or written by
\* earlier runs
(***************************************************************************)
(* The worker pool of sql_orchestra.py: SQLOrchestra and its worker        *)
(* threads around the topic queue.                                         *)
(***************************************************************************)
\* sql_orchestra.py:20
MAX_AGENTS == 1

\* the largest pool followed
MaxPool == 2

AgentIds == 1..MaxPool

\* a topic: one of the ten of TOPICS (sql_orchestra.py:21-32), as it stands
\* (n = 0) or with " examples <n>" behind it (line 165)
NoTopic == [base |-> 0, n |-> 0]

TOPICS == [i \in 1..10 |-> [base |-> i, n |-> 0]]

\* sql_orchestra.py:165: random.choice(TOPICS) + f" examples {random.randint(1,100)}"
NewTopics == {[base |-> 1, n |-> 1], [base |-> 10, n |-> 100]}

\* the blocks of one mission that are followed
MaxBlocks == 1

\* what the adapter LLM answers in the missions of the pool: a pair that can
\* be used, or nothing of use
PoolResponses ==
    { <<QLabel, "Rank items", "\n", SLabel, " ", "SELECT", " ", "a">>,
      <<"VALUES", " ", "1">> }

NoRow == [prompt |-> "", sql |-> <<>>, vector |-> <<>>]

\* a worker thread: "off" before it is started, "new" before its SQLAgent is
\* made, then "get", "refill", "mission", "rest"; within run_mission "block",
\* "adapt" and the steps of add_learned_query; "dead" after an exception left
\* the thread. blocks counts the blocks its mission has come to, row is the
\* record that its add_learned_query is about to store
NoAgent == [at |-> "off", topic |-> NoTopic, blocks |-> 0, row |-> NoRow]

\* queue.get(timeout=5) raises queue.Empty: no item came within the wait
QueueEmptyAlways(q) == TRUE

QueueEmpty(q) == q = <<>>

\* queue.put(item)
Put(q, item) == Append(q, item)

\* sql_orchestra.py:153-156, 174-179: SQLOrchestra() fills the queue with
\* TOPICS, start() starts the threads
PoolStart ==
    /\ started = 0
    /\ \E n \in MAX_AGENTS..MaxPool :
          /\ started' = n
          /\ agent' = [w \in AgentIds |-> IF w <= n THEN [NoAgent EXCEPT !.at = "new"]
                                                   ELSE NoAgent]
    /\ queue' = TOPICS
    /\ UNCHANGED outsidePool

\* sql_orchestra.py:159, 34-42: agent = SQLAgent(agent_id); KnowledgeBase(),
\* duckdb.connect or QueryWriter() may raise, and nothing in worker catches it
AgentNew(w) ==
    /\ agent[w].at = "new"
    /\ \E outcome \in {"made", "raise"} :
          agent' = [agent EXCEPT ![w].at = IF outcome = "made" THEN "get" ELSE "dead"]
    /\ UNCHANGED <<started, queue, outsidePool>>

\* sql_orchestra.py:161-162: topic = self.queue.get(timeout=5) gives an item
Get(w) ==
    /\ agent[w].at = "get"
    /\ queue # <<>>
    /\ agent' = [agent EXCEPT ![w] = [NoAgent EXCEPT !.at = "mission", !.topic = Head(queue)]]
    /\ queue' = Tail(queue)
    /\ UNCHANGED <<started, outsidePool>>

\* sql_orchestra.py:163-166: queue.Empty; new_topic is made, time.sleep(5)
GetTimesOut(w) ==
    /\ agent[w].at = "get"
    /\ QueueEmpty(queue)
    /\ \E t \in NewTopics :
          agent' = [agent EXCEPT ![w] = [NoAgent EXCEPT !.at = "refill", !.topic = t]]
    /\ UNCHANGED <<started, queue, outsidePool>>

\* sql_orchestra.py:167-168: self.queue.put(new_topic); continue
Refill(w) ==
    /\ agent[w].at = "refill"
    /\ queue' = Put(queue, agent[w].topic)
    /\ agent' = [agent EXCEPT ![w] = [NoAgent EXCEPT !.at = "get"]]
    /\ UNCHANGED <<started, outsidePool>>

\* run_mission returns to worker, by its end, its return at line 132 or the
\* except at line 148
MissionOver(w) == [agent EXCEPT ![w].at = "rest", ![w].blocks = 0, ![w].row = NoRow]

\* records stored or about to be, by the workers of the pool
LearnedInPool ==
    Len(learned) + Cardinality({w \in AgentIds :
                                  agent[w].at \in {"add_check", "add_open", "add_create"}})

\* sql_orchestra.py:170, 126-132, 148-149: agent.run_mission(topic) and its
\* search; a search that raises or finds nothing ends the mission
Mission(w) ==
    /\ agent[w].at = "mission"
    /\ \E found \in SearchHits :
          agent' = IF found = <<>> THEN MissionOver(w)
                                   ELSE [agent EXCEPT ![w].at = "block"]
    /\ UNCHANGED <<started, queue, outsidePool>>

\* sql_orchestra.py:134-140: the loops over the results and the blocks of
\* their pages come to the next block, or to their end
MissionBlock(w) ==
    /\ agent[w].at = "block"
    /\ \/ agent' = MissionOver(w)
       \/ /\ agent[w].blocks < MaxBlocks
          /\ agent' = [agent EXCEPT ![w].at = "adapt", ![w].blocks = @ + 1]
    /\ UNCHANGED <<started, queue, outsidePool>>

\* sql_orchestra.py:142-145, 79-124, knowledge_base.py:82-83:
\* adapt_and_validate, and for the pair it returns the embedding call of
\* add_learned_query, which may raise
MissionAdapt(w) ==
    /\ agent[w].at = "adapt"
    /\ \E r \in PoolResponses, o \in ExecuteOutcomes :
          IF OrchParse(r).null \/ o = "raise"
          THEN agent' = [agent EXCEPT ![w].at = "block"]
          ELSE /\ LearnedInPool < MaxRecords
               /\ \/ agent' = MissionOver(w)
                  \/ agent' = [agent EXCEPT
                                 ![w].at = "add_check",
                                 ![w].row = LearnedRow(Join(OrchParse(r).question),
                                                       OrchParse(r).sql)]
    /\ UNCHANGED <<started, queue, outsidePool>>

\* knowledge_base.py:85: "learned_queries" in self.db.table_names()
MissionAddCheck(w) ==
    /\ agent[w].at = "add_check"
    /\ agent' = [agent EXCEPT ![w].at =
                   IF "learned_queries" \in tableNames THEN "add_open" ELSE "add_create"]
    /\ UNCHANGED <<started, queue, outsidePool>>

\* knowledge_base.py:86-87: open_table and add; the mission goes on
MissionAddOpen(w) ==
    /\ agent[w].at = "add_open"
    /\ learned' = TableAdd(learned, <<agent[w].row>>)
    /\ agent' = [agent EXCEPT ![w].at = "block", ![w].row = NoRow]
    /\ UNCHANGED <<started, queue, tableNames, besideLearning>>

\* knowledge_base.py:89: create_table; when another worker has made the
\* table meanwhile the call raises, which ends the mission
MissionAddCreate(w) ==
    /\ agent[w].at = "add_create"
    /\ IF CreateTableRaises("learned_queries")
       THEN /\ agent' = MissionOver(w)
            /\ UNCHANGED <<tableNames, learned>>
       ELSE /\ tableNames' = tableNames \cup {"learned_queries"}
            /\ learned' = <<agent[w].row>>
            /\ agent' = [agent EXCEPT ![w].at = "block", ![w].row = NoRow]
    /\ UNCHANGED <<started, queue, besideLearning>>

\* sql_orchestra.py:171-172: self.queue.task_done(); time.sleep(2)
Rest(w) ==
    /\ agent[w].at = "rest"
    /\ agent' = [agent EXCEPT ![w] = [NoAgent EXCEPT !.at = "get"]]
    /\ UNCHANGED <<started, queue, outsidePool>>

(***************************************************************************)
(* The extraction chain of generate_query (agent.py:126-144), statement by *)
(* statement in the frame of the retry loop, over every short completion.  *)
(***************************************************************************)
ChainAlphabet == {Fence, "sql", "\n", "select", "x", "Sure", ":"}

\* completions longer than MaxLen or of other tokens: a tagged block over
\* several lines, a preamble before a statement, a block behind a preamble,
\* a continuation, a statement whose last piece ends in a space
LongCompletions ==
    { <<Fence, "SQL", "\n", "SELECT", " ", "1;", "\n", Fence>>,
      <<"SELECT", " ", "1; ">>,
      <<"Sure", " ", "x", ":", " ", "SELECT", " ", "1;">>,
      <<"sure", ":", "\n", Fence, "sql", " ", "WITH", " ", "x", " ", Fence, "\n", "x">>,
      <<" ", "*", " ", "FROM", " ", "x", "\n">> }

ChainInputs ==
    UNION {[1..n -> ChainAlphabet] : n \in 0..MaxLen} \cup LongCompletions

\* what a call comes to: the value it returns, or the name of what it raises
Returned(v) == [raised |-> None, value |-> v]

Raised(e) == [raised |-> e, value |-> <<>>]

\* re.search found nothing: None
NoMatch == [found |-> FALSE, groups |-> <<>>]

\* agent.py:134: re.search of the fence pattern: None, or a match object with
\* the one group of the pattern
Search(s) ==
    IF HasFencedBlock(s)
    THEN [found |-> TRUE, groups |-> <<FencedBlock(s)>>]
    ELSE NoMatch

\* mutant: group(1) is taken without the test of the match
MatchedUnchecked(m) == TRUE

\* agent.py:135: if match
Matched(m) == m.found

\* agent.py:136: match.group(n): None has no attribute group, and a match has
\* no group that its pattern has not
Group(m, n) ==
    IF ~m.found THEN Raised("AttributeError")
    ELSE IF n \notin 1..Len(m.groups) THEN Raised("IndexError")
    ELSE Returned(m.groups[n])

\* the frame of generate_query as the chain finds it. at is where the call
\* stands: "off", "prepend" before line 129, "search" before 134, "clean"
\* before 135, "keep" before 144, "kept" behind it, and "raised" when a
\* statement of the chain raised and the except clause of line 157 caught it.
\* text is the completion; sql, match, current_attempt, error_history,
\* last_generated_sql and previous_sql_signatures are the locals of these
\* names. ran and out: the chain has come to its end once, and the candidate
\* it made; reran and out2: the same of its second pass.
NoChain == [at |-> "off", text |-> <<>>, sql |-> <<>>, match |-> NoMatch,
            current_attempt |-> 0, error_history |-> <<>>,
            last_generated_sql |-> <<>>, previous_sql_signatures |-> {},
            ran |-> FALSE, out |-> <<>>, reran |-> FALSE, out2 |-> <<>>]

\* agent.py:85-91, 120-126: the first attempt of a call: the LLM answers and
\* sql holds the completion
ChainRun ==
    /\ chain.at = "off"
    /\ \E c \in ChainInputs :
          chain' = [NoChain EXCEPT !.at = "prepend", !.text = c, !.sql = c]
    /\ UNCHANGED outsideChain

\* agent.py:129-130
ChainPrepend ==
    /\ chain.at = "prepend"
    /\ chain' = [chain EXCEPT !.at = "search", !.sql = PrependSelect(chain.sql)]
    /\ UNCHANGED outsideChain

\* agent.py:134
ChainSearch ==
    /\ chain.at = "search"
    /\ chain' = [chain EXCEPT !.at = "clean", !.match = Search(chain.sql)]
    /\ UNCHANGED outsideChain

\* agent.py:135-142: the group of the match, or else the text without the
\* whitespace around it and without a preamble; what a statement raises goes
\* to line 157
ChainClean ==
    /\ chain.at = "clean"
    /\ LET r == IF Matched(chain.match)
                THEN Group(chain.match, 1)
                ELSE Returned(Strip(StripPreamble(Strip(chain.sql))))
       IN  chain' = IF r.raised = None
                    THEN [chain EXCEPT !.at = "keep", !.sql = r.value]
                    ELSE [chain EXCEPT !.at = "raised"]
    /\ UNCHANGED outsideChain

\* the frame behind line 144 with candidate as the text that the chain made
Kept(candidate) ==
    [chain EXCEPT !.at = "kept", !.sql = candidate, !.last_generated_sql = candidate,
                  !.ran = TRUE, !.out = IF chain.ran THEN @ ELSE candidate,
                  !.reran = chain.ran, !.out2 = IF chain.ran THEN candidate ELSE @]

\* mutant: a text that an earlier attempt of the call gave already is dropped
ChainKeepUnlessSeen ==
    /\ chain.at = "keep"
    /\ chain' = Kept(IF chain.sql \in chain.previous_sql_signatures
                     THEN <<>> ELSE chain.sql)
    /\ UNCHANGED outsideChain

\* agent.py:144: last_generated_sql = sql: the candidate is made
ChainKeep ==
    /\ chain.at = "keep"
    /\ chain' = Kept(chain.sql)
    /\ UNCHANGED outsideChain

\* agent.py:147-155, 160, 93, 120-126: the validator rejects the candidate,
\* which goes into error_history and previous_sql_signatures, the attempt is
\* counted, and in the next attempt the LLM gives the same completion again
ChainRerun ==
    /\ chain.at = "kept"
    /\ ~chain.reran
    /\ chain.current_attempt + 1 < max_retries
    /\ \E e \in EngineErrors :
          chain' = [chain EXCEPT
                       !.at = "prepend",
                       !.error_history =
                           Append(@, <<chain.current_attempt + 1, chain.sql, e>>),
                       !.previous_sql_signatures = @ \cup {chain.sql},
                       !.current_attempt = @ + 1,
                       !.sql = chain.text]
    /\ UNCHANGED outsideChain

(***************************************************************************)
(* The manual ingestion scripts (src/ingest_manual_docs.py,                *)
(* src/ingest_schema_rules.py).                                            *)
(***************************************************************************)
\* ingest_manual_docs.py:3, ingest_schema_rules.py:3: kb = KnowledgeBase();
\* __init__ sets self.docs_table = None (knowledge_base.py:44), or raises in
\* its embedding call (line 28)
ScriptStart ==
    /\ script.at = "none"
    /\ \E source \in {"manual_fix", "schema_fix"}, outcome \in {"made", "raise"} :
          script' = [at |-> IF outcome = "made" THEN "constructed" ELSE "failed",
                     source |-> source,
                     docs_table |-> None,
                     existed |-> "documentation" \in tableNames]
    /\ UNCHANGED <<storeVars, qwVars, kbVars, embVars, acqVars, poolVars, chain, trainer>>

\* ingest_manual_docs.py:17-22, ingest_schema_rules.py:18-22: the row is added
\* if kb.docs_table is set
ScriptAdd ==
    /\ script.at = "constructed"
    /\ IF script.docs_table # None
       THEN /\ docs' = TableAdd(docs, <<DocRow("rule", script.source)>>)
            /\ script' = [script EXCEPT !.at = "added"]
       ELSE /\ docs' = docs
            /\ script' = [script EXCEPT !.at = "passed"]
    /\ UNCHANGED <<tableNames, learned, qwVars, kbVars, embVars, acqVars, poolVars, chain, trainer>>

(***************************************************************************)
(* Trainer (trainer.py).                                                   *)
(***************************************************************************)
\* trainer.py:75: len(levels)
Levels == 4

\* trainer.py:83
FailLimit == 10

\* trainer.py:49: max_retries of generate_ground_truth
GroundTruthRetries == 5

\* a (question, sql) pair of the teacher model: the question, and the number
\* that stands for hashlib.md5 of the pair (trainer.py:58)
NoPair == [question |-> "", q_hash |-> 0]

NoTrainer == [at |-> "off", kb |-> None, level |-> 0, success |-> 0, fails_in_row |-> 0,
              tries |-> 0, seen_hashes |-> {}, pair |-> NoPair]

\* the store after the learn call of a student whose answer matched
Memorized(rows, question) == TableAdd(rows, <<LearnedRow(question, <<"SELECT", " ", "x">>)>>)

\* trainer.py:9-16, 74-80: Trainer(), with the QueryWriter it makes, and the
\* entry of train
TrainStart ==
    /\ trainer.at = "off"
    /\ \E k \in QueryWriterKb :
          trainer' = [NoTrainer EXCEPT !.at = "loop", !.kb = k, !.level = 1]
    /\ UNCHANGED <<storeVars, qwVars, kbVars, embVars, acqVars, poolVars, chain, script>>

\* trainer.py:77-88: the test of the while loop, the break after 10 failures
\* in a row, the next level
LoopTest ==
    /\ trainer.at = "loop"
    /\ trainer' =
          IF trainer.success < target_per_level /\ ~(trainer.fails_in_row >= FailLimit)
          THEN [trainer EXCEPT !.at = "gen", !.tries = 0, !.pair = NoPair]
          ELSE IF trainer.level < Levels
               THEN [trainer EXCEPT !.level = @ + 1, !.success = 0, !.fails_in_row = 0]
               ELSE [trainer EXCEPT !.at = "complete"]
    /\ UNCHANGED <<storeVars, qwVars, kbVars, embVars, acqVars, poolVars, chain, script>>

\* trainer.py:50-71, 88-92: one round of generate_ground_truth: the LLM call or
\* the parsing raises, the pair was seen, the statement raises or gives no
\* rows, or the pair is marked seen and returned; train goes on with a pair
\* whose question is not empty
GroundTruthTry ==
    /\ trainer.at = "gen"
    /\ trainer.tries < GroundTruthRetries
    /\ LET fresh(question) == [question |-> question,
                               q_hash |-> Cardinality(trainer.seen_hashes) + 1]
       IN  \/ trainer' = [trainer EXCEPT !.tries = @ + 1]
           \/ \E question \in {"q1", ""} :
                 /\ Cardinality(trainer.seen_hashes) < MaxPairs
                 /\ trainer' = [trainer EXCEPT !.tries = @ + 1,
                                            !.seen_hashes = @ \cup {fresh(question).q_hash},
                                            !.pair = fresh(question),
                                            !.at = IF question = "" THEN "loop" ELSE "student"]
    /\ UNCHANGED <<storeVars, qwVars, kbVars, embVars, acqVars, poolVars, chain, script>>

\* trainer.py:72, 90-92: return None, None, None; Gen Failed, continue
GroundTruthGivesUp ==
    /\ trainer.at = "gen"
    /\ trainer.tries = GroundTruthRetries
    /\ trainer' = [trainer EXCEPT !.at = "loop"]
    /\ UNCHANGED <<storeVars, qwVars, kbVars, embVars, acqVars, poolVars, chain, script>>

\* trainer.py:98-127: the student's answer matches and is learned, or it is
\* wrong, or generate_query, the execution or learn raises
StudentAttempt ==
    /\ trainer.at = "student"
    /\ \/ /\ trainer' = [trainer EXCEPT !.at = "loop", !.success = @ + 1, !.fails_in_row = 0]
          /\ IF trainer.kb = "KB"
             THEN /\ tableNames' = tableNames \cup {"learned_queries"}
                  /\ learned' = Memorized(learned, trainer.pair.question)
             ELSE UNCHANGED <<tableNames, learned>>
       \/ /\ trainer' = [trainer EXCEPT !.at = "loop", !.fails_in_row = @ + 1]
          /\ UNCHANGED <<tableNames, learned>>
    /\ UNCHANGED <<docs, qwVars, kbVars, embVars, acqVars, poolVars, chain, script>>

InitStores ==
    { [names |-> {}, learned |-> <<>>, docs |-> <<>>],
      [names |-> {"learned_queries", "documentation"},
       learned |-> <<LearnedRow("q2", <<"SELECT", " ", "x">>)>>,
       docs |-> <<DocRow("SELECT * FROM t WHERE c > 1", DocsUrl)>>] }

Init ==
    /\ \E st \in InitStores :
          /\ tableNames = st.names
          /\ learned = st.learned
          /\ docs = st.docs
    /\ kb = "unset"
    /\ pc = "new"
    /\ prompt = "q1"
    /\ rag_context = EmptyRag
    /\ current_attempt = 0
    /\ error_history = <<>>
    /\ last_generated_sql = <<>>
    /\ full_prompt = [schema |-> SchemaText, examples |-> EmptyRag,
                      question |-> "q1", errors |-> <<>>]
    /\ sql = <<>>
    /\ error_msg = None
    /\ openConns = 0
    /\ result = NoResult
    /\ searchOutcome = "skipped"
    /\ attempts = <<>>
    /\ llmCalls = 0
    /\ validatorCalls = 0
    /\ learnOutcome = "none"
    /\ learnCalls = 0
    /\ call = [c \in Callers |-> Idle]
    /\ ret = NoReturn
    /\ dim = 0
    /\ compared_vec = <<>>
    /\ prog = "none"
    /\ apc = "off"
    /\ iteration = 0
    /\ missions = 0
    /\ seen_urls = {}
    /\ hits = <<>>
    /\ url = <<>>
    /\ page_content = <<>>
    /\ sql_blocks = <<>>
    /\ cand = NoCand
    /\ fetches = [u \in Urls |-> <<>>]
    /\ started = 0
    /\ queue = <<>>
    /\ agent = [w \in AgentIds |-> NoAgent]
    /\ chain = NoChain
    /\ script = [at |-> "none", source |-> "none", docs_table |-> None, existed |-> FALSE]
    /\ trainer = NoTrainer

Next ==
    \/ QueryWriterInit
    \/ \E p \in Prompts : GenerateQuery(p)
    \/ Compose
    \/ Exhausted
    \/ Generate
    \/ ValidateConnect
    \/ ValidateExplain
    \/ ValidateClose
    \/ Accept
    \/ Retry
    \/ Learn
    \/ NoLearn

Spec == Init /\ [][Next]_vars

(***************************************************************************)
(* The knowledge store under its concurrent callers.                       *)
(***************************************************************************)
KBNext ==
    \E c \in Workers :
       \/ \E p \in Prompts, s \in WorkerSqls : WorkerAdd(c, p, s)
       \/ AddCheck(c)
       \/ AddOpen(c)
       \/ AddCreate(c)
       \/ \E p \in Prompts, k \in 1..MaxK : WorkerSearch(c, p, k)
       \/ SearchLearned(c)
       \/ SearchDocs(c)
       \/ IngestDocsBegin(c)
       \/ IngestDocsCheck(c)
       \/ IngestDocsOpen(c)
       \/ IngestDocsCreate(c)

KBSpec == Init /\ [][KBNext]_vars

(***************************************************************************)
(* One KnowledgeBase and a provider that answers vectors of any length.    *)
(***************************************************************************)
EmbNext ==
    \/ KBCalibrate
    \/ \E p \in Prompts, s \in WorkerSqls : EmbAddLearnedQuery(p, s)
    \/ EmbIngestDocs
    \/ EmbSearch

EmbedSpec == Init /\ [][EmbNext]_vars

(***************************************************************************)
(* The acquisition path: the process runs expert_miner.py or               *)
(* sql_orchestra.py.                                                       *)
(***************************************************************************)
AcqNext ==
    \/ MinerStart
    \/ MinerSearch
    \/ MinerNextUrl
    \/ MinerFetch
    \/ MinerNextBlock
    \/ MinerAdapt
    \/ MinerExecute
    \/ MinerCommit
    \/ OrchStart
    \/ RunMission
    \/ OrchNextUrl
    \/ OrchScrape
    \/ OrchNextBlock
    \/ OrchAdapt
    \/ OrchExecute
    \/ OrchCommit

AcqSpec == Init /\ [][AcqNext]_vars

(***************************************************************************)
(* The documentation collection: ingest_docs of a worker and the manual    *)
(* ingestion scripts.                                                      *)
(***************************************************************************)
ScriptNext ==
    \/ IngestDocsBegin("w1")
    \/ IngestDocsCheck("w1")
    \/ IngestDocsOpen("w1")
    \/ IngestDocsCreate("w1")
    \/ \E p \in Prompts, k \in 1..MaxK : WorkerSearch("w1", p, k)
    \/ SearchLearned("w1")
    \/ SearchDocs("w1")
    \/ ScriptStart
    \/ ScriptAdd

ScriptSpec == Init /\ [][ScriptNext]_vars

(***************************************************************************)
(* Trainer.train; the interpreter keeps running it.                        *)
(***************************************************************************)
TrainNext ==
    \/ TrainStart
    \/ LoopTest
    \/ GroundTruthTry
    \/ GroundTruthGivesUp
    \/ StudentAttempt

TrainSpec == Init /\ [][TrainNext]_vars /\ WF_vars(TrainNext)

(***************************************************************************)
(* The extraction chain in two attempts of one call.                       *)
(***************************************************************************)
ChainNext ==
    \/ ChainRun
    \/ ChainPrepend
    \/ ChainSearch
    \/ ChainClean
    \/ ChainKeep
    \/ ChainRerun

ChainSpec == Init /\ [][ChainNext]_vars

(***************************************************************************)
(* The worker pool of sql_orchestra.py.                                    *)
(***************************************************************************)
WorkerStep(w) ==
    \/ AgentNew(w)
    \/ Get(w)
    \/ GetTimesOut(w)
    \/ Refill(w)
    \/ Mission(w)
    \/ MissionBlock(w)
    \/ MissionAdapt(w)
    \/ MissionAddCheck(w)
    \/ MissionAddOpen(w)
    \/ MissionAddCreate(w)
    \/ Rest(w)

PoolNext ==
    \/ PoolStart
    \/ \E w \in AgentIds : WorkerStep(w)

\* every thread that can take a step is scheduled again and again, and the
\* calls of a mission return
PoolFairness == \A w \in AgentIds : WF_vars(WorkerStep(w))

PoolSpec == Init /\ [][PoolNext]_vars /\ WF_vars(PoolStart) /\ PoolFairness


(***************************************************************************)
(* Properties of generate_query.                                           *)
(***************************************************************************)
Tokens ==
    {"SELECT", "select", "WITH", "with", " ", "\n", Fence, "sql", "SQL", "x",
     "Sure", "sure", ":"}

IsText(v) == v \in Seq(Tokens)

IsPrefix(s, t) == Len(s) <= Len(t) /\ SubSeq(t, 1, Len(s)) = s

Running == pc \in {"loop", "llm", "validate", "explain", "close", "validated"}

RunStep ==
    \/ Compose
    \/ Exhausted
    \/ Generate
    \/ ValidateConnect
    \/ ValidateExplain
    \/ ValidateClose
    \/ Accept
    \/ Retry

Stage ==
    CASE pc = "loop" -> 6
      [] pc = "llm" -> 5
      [] pc = "validate" -> 4
      [] pc = "explain" -> 3
      [] pc = "close" -> 2
      [] pc = "validated" -> 1
      [] OTHER -> 0

\* what is left of the run: the attempts left, then the steps left of the attempt
Measure == (max_retries - current_attempt) * 8 + Stage

Rejected(a) == a.verdict \in EngineErrors

LastAttempt == attempts[Len(attempts)]

\* C1: generate_query terminates and returns a string after at most 3 LLM
\* calls and at most one validator call per LLM call, whatever the outcome of
\* each attempt: a run is never stuck, every step of it brings it nearer to
\* its end, and no exception leaves it.
C1_TerminatesWithinBound ==
    /\ [](/\ llmCalls <= max_retries
          /\ validatorCalls <= llmCalls
          /\ Measure >= 0
          /\ (Running => ENABLED RunStep)
          /\ result.kind # "raised"
          /\ (pc = "done" => result.kind = "returned" /\ IsText(result.value)))
    /\ [][Running => (Running' \/ pc' = "done") /\ Measure' < Measure]_vars

C1_Witness ==
    /\ pc = "done"
    /\ llmCalls = max_retries
    /\ attempts[1].llm = "raised"
    /\ attempts[2].verdict = "ConnectError"
    /\ Rejected(attempts[3])

\* C2: the first attempt whose candidate the validator accepts ends the run
\* and that candidate is what is returned, with no LLM or validator call
\* after it; a run that ends with attempts left ends on an accepted candidate.
C2_FirstAcceptedIsReturned ==
    /\ \A i \in 1..Len(attempts) :
          attempts[i].verdict = None =>
             /\ i = Len(attempts)
             /\ llmCalls = i
             /\ validatorCalls <= i
             /\ pc \in {"close", "validated", "done"}
             /\ pc = "done" => result = [kind |-> "returned", value |-> attempts[i].candidate]
    /\ pc = "done" /\ llmCalls < max_retries =>
          attempts # <<>> /\ LastAttempt.verdict = None

C2_Witness ==
    /\ pc = "done"
    /\ Len(attempts) = 2
    /\ Rejected(attempts[1])
    /\ attempts[2].verdict = None
    /\ attempts[2].candidate # attempts[1].candidate
    /\ result.value = attempts[2].candidate

\* C3: when three attempts are made and the validator rejects each candidate,
\* the candidate of the third attempt is returned.
C3_ExhaustedReturnsLast ==
    (/\ pc = "done"
     /\ Len(attempts) = max_retries
     /\ \A i \in 1..max_retries : Rejected(attempts[i]))
    => result = [kind |-> "returned", value |-> attempts[max_retries].candidate]

C3_Witness ==
    /\ pc = "done"
    /\ Len(attempts) = max_retries
    /\ \A i \in 1..max_retries : Rejected(attempts[i])
    /\ attempts[3].candidate # attempts[1].candidate
    /\ attempts[3].candidate # attempts[2].candidate
    /\ result.value = attempts[3].candidate

\* the entries of the attempts before the n-th that the validator rejected
RECURSIVE RejectedBefore(_)
RejectedBefore(n) ==
    IF n <= 1 THEN <<>>
    ELSE LET a == attempts[n - 1]
         IN  IF Rejected(a)
             THEN Append(RejectedBefore(n - 1), <<n - 1, a.candidate, a.verdict>>)
             ELSE RejectedBefore(n - 1)

\* C4: the prompt of attempt 1 has an empty error history, the prompt of
\* attempt n holds, in order, one entry (index, candidate, error) per earlier
\* attempt that the validator rejected, the history only grows by appending,
\* and the attempt counter goes up by one per attempt.
C4_ErrorHistoryAccumulates ==
    /\ [](/\ \A n \in 1..Len(attempts) :
                /\ attempts[n].index = n
                /\ attempts[n].prompt.errors = RejectedBefore(n)
          /\ pc = "llm" => full_prompt.errors = RejectedBefore(Len(attempts) + 1)
          /\ pc \in {"loop", "llm"} => current_attempt = Len(attempts)
          /\ pc \in {"validate", "explain", "close", "validated"} =>
                current_attempt = Len(attempts) - 1)
    /\ [][Running /\ Running' =>
             /\ IsPrefix(error_history, error_history')
             /\ current_attempt' \in {current_attempt, current_attempt + 1}]_vars

C4_Witness ==
    /\ pc = "llm"
    /\ current_attempt = 2
    /\ Len(full_prompt.errors) = 2
    /\ full_prompt.errors[1] = <<1, attempts[1].candidate, attempts[1].verdict>>
    /\ full_prompt.errors[2] = <<2, attempts[2].candidate, attempts[2].verdict>>
    /\ attempts[1].candidate # attempts[2].candidate
    /\ attempts[1].prompt.errors = <<>>

\* the candidate an attempt with the empty completion yields
EmptyCompletionCandidate == ExtractSql(<<>>)

\* C5, as claimed: an attempt whose LLM call raised leaves the candidate of
\* the empty completion behind, and that is what is returned when it was the
\* last attempt.
C5_RaiseIsEmptyCompletion ==
    /\ pc = "loop" /\ attempts # <<>> /\ LastAttempt.llm = "raised" =>
          last_generated_sql = EmptyCompletionCandidate
    /\ pc = "done" /\ llmCalls = max_retries /\ LastAttempt.llm = "raised" =>
          result.value = EmptyCompletionCandidate

\* the candidate of the latest attempt before the n-th whose LLM call returned
RECURSIVE CandidateBefore(_)
CandidateBefore(n) ==
    IF n <= 1 THEN <<>>
    ELSE IF attempts[n - 1].llm = "returned" THEN attempts[n - 1].candidate
         ELSE CandidateBefore(n - 1)

\* C5, amended: an attempt whose LLM call raises is caught and counted, and
\* skipped: no candidate is made, the validator is not called, the error
\* history gets no entry, and the last generated SQL stays what it was, so
\* that a run ending on such an attempt returns the candidate of the latest
\* attempt whose LLM call returned, or the empty string when there is none.
C5_RaiseSkipsAttempt ==
    /\ [](/\ result.kind # "raised"
          /\ \A n \in 1..Len(attempts) :
                attempts[n].llm = "raised" =>
                   /\ attempts[n].verdict = "none"
                   /\ \A j \in 1..Len(error_history) : error_history[j][1] # n
          /\ pc = "loop" /\ attempts # <<>> /\ LastAttempt.llm = "raised" =>
                /\ current_attempt = Len(attempts)
                /\ last_generated_sql = CandidateBefore(Len(attempts))
          /\ pc = "done" /\ llmCalls = max_retries /\ LastAttempt.llm = "raised" =>
                result = [kind |-> "returned", value |-> CandidateBefore(max_retries)])
    /\ [][pc = "llm" /\ pc' = "loop" =>
             /\ current_attempt' = current_attempt + 1
             /\ validatorCalls' = validatorCalls
             /\ error_history' = error_history
             /\ last_generated_sql' = last_generated_sql]_vars

C5_Witness ==
    /\ pc = "done"
    /\ llmCalls = max_retries
    /\ Rejected(attempts[2])
    /\ attempts[3].llm = "raised"
    /\ result.value = attempts[2].candidate
    /\ result.value # EmptyCompletionCandidate
    /\ validatorCalls = 2
    /\ Len(error_history) = 2

\* C6: without a knowledge base the synthesis path works: __init__ ends with
\* kb None or set, a run whose search was skipped or raised has an empty
\* retrieval context in every prompt and runs its loop to an accepted
\* candidate or through all attempts, and learn with kb None does nothing.
C6_WorksWithoutKnowledgeBase ==
    /\ pc # "new" => kb \in {None, "KB"}
    /\ kb = None =>
          /\ searchOutcome = "skipped"
          /\ call["qw"] = Idle
          /\ ret = NoReturn
          /\ learnOutcome \in {"none", "noop"}
          /\ [names |-> tableNames, learned |-> learned, docs |-> docs] \in InitStores
    /\ (Running \/ pc = "done") /\ searchOutcome \in {"skipped", "raised"} =>
          /\ rag_context = EmptyRag
          /\ \A n \in 1..Len(attempts) : attempts[n].prompt.examples = EmptyRag
          /\ result.kind # "raised"
          /\ pc = "done" =>
                /\ result.kind = "returned"
                /\ llmCalls >= 1
                /\ llmCalls = max_retries \/ LastAttempt.verdict = None

C6_Witness ==
    /\ kb = None
    /\ tableNames # {}
    /\ pc = "idle"
    /\ learnOutcome = "noop"

\* C7: a connection that _validate_sql opened is closed when the call has
\* returned, whether EXPLAIN succeeded or raised: outside a validator call
\* none is open.
C7_ValidatorClosesConnection ==
    openConns = IF pc \in {"explain", "close"} THEN 1 ELSE 0

C7_Witness ==
    /\ pc = "validated"
    /\ validatorCalls = 2
    /\ error_msg \in EngineErrors
    /\ Rejected(attempts[1])
    /\ openConns = 0

(***************************************************************************)
(* Properties of the knowledge store.                                      *)
(***************************************************************************)
RowsOf(rows) == {rows[i] : i \in 1..Len(rows)}

Min(a, b) == IF a < b THEN a ELSE b

\* C8, as claimed: an add_learned_query call that got its embedding ends
\* without error and its record is in the collection afterwards, whatever
\* the other callers do meanwhile.
C8_ConcurrentAddsAllStored ==
    ret.op = "add" /\ ret.outcome # "EmbedError" =>
       /\ ret.outcome = "ok"
       /\ ret.value \in RowsOf(learned)

\* the step in which caller c's add_learned_query ends
AddEnds(c) == call[c].pc \in {"add_open", "add_create"} /\ call'[c].pc = "idle"

\* C9: the store is append-only: a step keeps every stored row as it is and
\* in its place, drops no table, and changes the learned collection only by
\* the one row of an add_learned_query that succeeds, put at the end whether
\* or not an equal row is there already.
C9_StoreIsAppendOnly ==
    [][/\ IsPrefix(learned, learned')
       /\ IsPrefix(docs, docs')
       /\ tableNames \subseteq tableNames'
       /\ \A c \in Callers :
             AddEnds(c) /\ ret'.outcome = "ok" => learned' = Append(learned, call[c].row)
       /\ learned' # learned =>
             /\ Len(learned') = Len(learned) + 1
             /\ \E c \in Callers : AddEnds(c) /\ ret'.outcome = "ok"]_vars

C9_Witness ==
    /\ ret.op = "add"
    /\ ret.outcome = "ok"
    /\ \E i, j \in 1..Len(learned) :
          /\ i < j
          /\ learned[i].prompt = learned[j].prompt
          /\ learned[i].sql = learned[j].sql
          /\ learned[j] = ret.value

\* the step in which caller c's search reads the learned collection
SearchReads(c) == call[c].pc = "search_learned" /\ call'[c].pc = "search_docs"

\* the step in which caller c's search reads the documentation and returns
SearchReturns(c) == call[c].pc = "search_docs" /\ call'[c].pc = "idle"

\* the step in which a search call ends
SearchEnds ==
    \/ ret' # ret /\ ret'.op = "search"
    \/ \E c \in Workers : call[c].pc \in {"search_learned", "search_docs"}
                              /\ call'[c].pc = "idle"

\* C10: a search whose prompt was embedded ends without error whichever
\* collections exist, also while other callers add to the store; the list of
\* a collection that does not exist when the search comes to it is empty, and
\* so is the list of one that does not exist when the search returns; with no
\* collection the result is {learned: [], docs: []}, and the list of a
\* collection that exists when the search comes to it holds the min(k, size)
\* rows of it whether or not the other collection exists. The search changes
\* nothing in the store.
C10_AbsentCollectionGivesEmptyList ==
    [][/\ SearchEnds =>
             /\ UNCHANGED storeVars
             /\ ret'.op = "search"
             /\ ret'.outcome \in {"ok", "EmbedError"}
       /\ \A c \in Workers :
             /\ SearchReads(c) =>
                   LET r == call'[c].results
                       k == call[c].k
                   IN  /\ UNCHANGED storeVars
                       /\ r.docs = <<>>
                       /\ "learned_queries" \notin tableNames => r.learned = <<>>
                       /\ "learned_queries" \in tableNames =>
                             /\ Len(r.learned) = Min(k, Len(learned))
                             /\ RowsOf(r.learned) \subseteq RowsOf(learned)
             /\ SearchReturns(c) =>
                   LET r == ret'.value.results
                       k == call[c].k
                   IN  /\ ret'.caller = c
                       /\ ret'.outcome = "ok"
                       /\ r.learned = call[c].results.learned
                       /\ "learned_queries" \notin tableNames => r.learned = <<>>
                       /\ "documentation" \notin tableNames => r.docs = <<>>
                       /\ tableNames = {} => r = [learned |-> <<>>, docs |-> <<>>]
                       /\ "documentation" \in tableNames =>
                             /\ Len(r.docs) = Min(k, Len(docs))
                             /\ RowsOf(r.docs) \subseteq RowsOf(docs)]_vars

C10_Witness ==
    /\ ret.op = "search"
    /\ ret.outcome = "ok"
    /\ "learned_queries" \notin tableNames
    /\ "documentation" \in tableNames
    /\ ret.value.results.learned = <<>>
    /\ ret.value.results.docs # <<>>

\* C11: a search with the text p that comes to the learned collection when a
\* record of p is stored there takes from it at least one and at most k
\* records, in order of increasing distance to the vector of p, the first of
\* them with prompt p, and returns that list as it took it.
C11_IdenticalTextIsNearest ==
    [][\A c \in Workers :
          /\ (/\ SearchReads(c)
              /\ \E i \in 1..Len(learned) : learned[i].prompt = call[c].prompt) =>
                LET r  == call'[c].results.learned
                    qv == Embedding(call[c].prompt)
                IN  /\ Len(r) >= 1
                    /\ Len(r) <= call[c].k
                    /\ \A i, j \in 1..Len(r) :
                          i < j => Distance(r[i].vector, qv) <= Distance(r[j].vector, qv)
                    /\ r[1].prompt = call[c].prompt
                    /\ Distance(r[1].vector, qv) = 0
          /\ SearchReturns(c) =>
                /\ ret'.outcome = "ok"
                /\ ret'.value.prompt = call[c].prompt
                /\ ret'.value.k = call[c].k
                /\ ret'.value.results.learned = call[c].results.learned]_vars

C11_Witness ==
    /\ ret.op = "search"
    /\ ret.outcome = "ok"
    /\ Len(learned) >= 2
    /\ learned[1].prompt # ret.value.prompt
    /\ learned[Len(learned)].prompt = ret.value.prompt
    /\ Len(ret.value.results.learned) = 2
    /\ ret.value.results.learned[1].prompt = ret.value.prompt
    /\ ret.value.results.learned[2].prompt # ret.value.prompt

\* C12, as claimed: every vector a KnowledgeBase has stored, and every query
\* vector a table compared with its rows, has the length that the
\* calibration call of __init__ measured.
C12_VectorsHaveCalibratedDimension ==
    dim # 0 =>
       /\ \A i \in 1..Len(learned) : Len(learned[i].vector) = dim
       /\ \A i \in 1..Len(docs) : Len(docs[i].vector) = dim
       /\ compared_vec # <<>> => Len(compared_vec) = dim

(***************************************************************************)
(* Properties of the acquisition path.                                     *)
(***************************************************************************)
\* C13: in ExpertMiner.mine no URL is fetched twice: every URL has at most
\* one requests.get, whatever its outcome, a fetched URL is in seen_urls, and
\* the URL about to be fetched is in seen_urls and was never fetched.
C13_MinerFetchesUrlOnce ==
    prog = "miner" =>
       /\ \A u \in Urls :
             /\ Len(fetches[u]) <= 1
             /\ fetches[u] # <<>> => u \in seen_urls
       /\ apc = "fetch" => url \in seen_urls /\ fetches[url] = <<>>

C13_Witness ==
    /\ prog = "miner"
    /\ iteration = 1
    /\ apc = "url"
    /\ hits = <<>>
    /\ url = FallbackUrl
    /\ fetches[PostUrl] = <<"raise">>
    /\ fetches[FallbackUrl] = <<"status">>

\* C14, as claimed: in the SQLOrchestra pool no URL is fetched twice.
C14_OrchestraFetchesUrlOnce ==
    prog = "orchestra" => \A u \in Urls : Len(fetches[u]) <= 1

\* C15, as claimed: add_learned_query is called only for a candidate that the
\* adapter did not decline, whose adapted SQL is not empty and was executed
\* without error just before.
C15_CommitOnlyValidated ==
    apc = "commit" \/ cand.commit # "none" =>
       /\ cand.llm = "returned"
       /\ ~Declines(cand.response)
       /\ ~cand.parsed.null
       /\ cand.parsed.sql # <<>>
       /\ cand.exec = "ok"

\* C16, as claimed: after a failure with one candidate (the LLM call, the
\* execution of the statement or the commit raised) the loop stands at the
\* next block of the same page.
C16_FailureKeepsRemainingWork ==
    cand.llm = "raised" \/ cand.exec = "raise" \/ cand.commit = "raise" => apc = "block"

\* the blocks that the page at hand holds for the program that runs
RawBlocks ==
    IF prog = "miner"
    THEN MinerBlocks(url, page_content)
    ELSE FindAllSqlFences(page_content, TRUE)
            \o SelectSeq(CodeElements(page_content), LooksLikeQuery)

\* the page has just been fetched and none of its blocks visited
JustFetched == apc = "block" /\ cand = NoCand /\ page_content # <<>>

\* C17, as claimed: a block of fewer than 50 characters is not adapted and a
\* block of 50 characters or more is passed to the adapter, in both loops.
C17_FiftyOrMoreAdapted ==
    /\ cand.stage = "discarded" => CharLen(cand.block) < 50
    /\ cand.stage \in {"adapt", "adapted"} => CharLen(cand.block) >= 50
    /\ JustFetched =>
          \A i \in 1..Len(RawBlocks) :
             CharLen(RawBlocks[i]) >= 50 =>
                \E j \in 1..Len(sql_blocks) : sql_blocks[j] \in {RawBlocks[i], Strip(RawBlocks[i])}

\* C17: ExpertMiner passes over a block of fewer than 50 characters without an
\* LLM call and hands every block of 50 or more to the adapter; SQLAgent
\* strips the blocks of a page, keeps exactly those whose stripped text is
\* longer than 50 characters and hands each of them to the adapter. What the
\* adapter is shown of a block are its first 2000 characters.
C17_ShortBlocksDiscarded ==
    /\ [](/\ cand.stage = "discarded" =>
                prog = "miner" /\ CharLen(cand.block) < 50 /\ cand.llm = "none"
          /\ cand.stage \in {"adapt", "adapted"} =>
                IF prog = "miner"
                THEN CharLen(cand.block) >= 50
                ELSE CharLen(cand.block) > 50 /\ Strip(cand.block) = cand.block
          /\ cand.llm # "none" => cand.stage = "adapted"
          /\ JustFetched =>
                IF prog = "miner"
                THEN sql_blocks = RawBlocks
                ELSE /\ \A i \in 1..Len(RawBlocks) :
                           CharLen(Strip(RawBlocks[i])) > 50 <=>
                              \E j \in 1..Len(sql_blocks) : sql_blocks[j] = Strip(RawBlocks[i])
                     /\ \A j \in 1..Len(sql_blocks) : CharLen(sql_blocks[j]) > 50)
    /\ [][apc = "block" /\ sql_blocks # <<>> =>
             /\ sql_blocks' = Tail(sql_blocks)
             /\ IF prog = "miner" /\ CharLen(Head(sql_blocks)) < 50
                THEN /\ cand'.stage = "discarded"
                     /\ cand'.block = Head(sql_blocks)
                     /\ apc' = "block"
                ELSE /\ cand'.stage = "adapt"
                     /\ cand'.block = Prefix(Head(sql_blocks), 2000)
                     /\ apc' = "adapt"]_vars

C17_Witness ==
    /\ prog = "orchestra"
    /\ cand.stage = "adapted"
    /\ cand.llm = "returned"
    /\ CharLen(cand.block) = 51
    /\ \E i \in 1..Len(RawBlocks) : CharLen(RawBlocks[i]) = 50
    /\ \E i \in 1..Len(RawBlocks) : CharLen(RawBlocks[i]) = 49

\* C18: a response that holds the sentinel N/A gives the null result,
\* whatever else it holds; no statement is executed for it and nothing is
\* committed.
C18_SentinelDeclines ==
    cand.llm = "returned" /\ Contains(cand.response, "N/A") =>
       /\ cand.parsed = NullResult
       /\ cand.returned = "null"
       /\ cand.exec = "none"
       /\ cand.commit = "none"
       /\ apc \notin {"exec", "commit"}

C18_Witness ==
    /\ cand.llm = "returned"
    /\ Contains(cand.response, "N/A")
    /\ Contains(cand.response, QLabel)
    /\ Contains(cand.response, SLabel)
    /\ Contains(cand.response, "SELECT")
    /\ cand.response[1] # "N/A"
    /\ cand.returned = "null"
    /\ apc = "block"

\* C19, as claimed: a pair that the adapter returns has a SQL text that is
\* not empty.
C19_AdapterNeverEmptySql ==
    cand.returned = "pair" => cand.parsed.sql # <<>>

\* the SQL that the stated order of precedence gives: the labeled section,
\* else the first fenced block, else the whole response
StatedSql(r) ==
    IF Contains(r, SLabel)
    THEN SqlSection(r)
    ELSE IF FindAllSqlFences(r, FALSE) # <<>>
         THEN Strip(FindAllSqlFences(r, FALSE)[1])
         ELSE r

\* C20, as claimed: for a response that is not empty and not a decline the
\* adapter takes the labeled SQL section, else the fenced block, else the
\* whole response (as it stands, or cut to start at its first SELECT).
C20_SectionThenFenceThenWhole ==
    cand.llm = "returned" /\ cand.response # <<>> /\ ~Declines(cand.response) =>
       /\ ~cand.parsed.null
       /\ cand.parsed.sql \in {StatedSql(cand.response), MinerCleanSql(StatedSql(cand.response))}

(***************************************************************************)
(* Properties of the worker pool.                                          *)
(***************************************************************************)
\* a worker takes a topic from the queue and starts a mission with it
Dequeues == \E w \in AgentIds : Get(w)

\* C21, as claimed: the pool does not idle for ever, for a pool of one worker
\* and of more: a worker refills only after a wait on the empty queue timed
\* out, the topic it then puts is a new one, and under fair scheduling, again
\* and again, some worker takes a topic from the queue and runs a mission.
C21_PoolNeverIdlesForever ==
    /\ [][\A w \in AgentIds :
             /\ agent[w].at # "refill" /\ agent'[w].at = "refill" =>
                   queue = <<>> /\ agent'[w].topic \in NewTopics
             /\ agent[w].at = "refill" /\ agent'[w].at # "refill" =>
                   queue' = Append(queue, agent[w].topic)]_vars
    /\ []<><<Dequeues>>_vars

Max(a, b) == IF a > b THEN a ELSE b

\* C22: the queue is never longer than max(number of initial topics, number
\* of workers); once it holds refilled topics it holds no more of them than
\* there are workers.
C22_QueueIsBounded ==
    /\ Len(queue) <= Max(Len(TOPICS), started)
    /\ \A i \in 1..Len(queue) : queue[i] \in NewTopics => Len(queue) <= started

C22_Witness ==
    /\ started = 2
    /\ Len(queue) = 2
    /\ \A i \in 1..Len(queue) : queue[i] \in NewTopics
    /\ \A w \in AgentIds : agent[w].at = "get"

(***************************************************************************)
(* Properties of the extraction chain.                                     *)
(***************************************************************************)
IsKeyword(t) == Upper(t) \in {"SELECT", "WITH"}

\* the text between the first two fences of s, without the tag, trimmed
InsideFirstFence(s) ==
    LET first  == CHOOSE i \in 1..Len(s) :
                     s[i] = Fence /\ \A j \in 1..(i - 1) : s[j] # Fence
        second == CHOOSE i \in (first + 1)..Len(s) :
                     s[i] = Fence /\ \A j \in (first + 1)..(i - 1) : s[j] # Fence
        tagged == first + 1 < second /\ Upper(s[first + 1]) = "SQL"
    IN  Strip(SubSeq(s, IF tagged THEN first + 2 ELSE first + 1, second - 1))

\* C23: a completion that holds a fenced block gives as candidate exactly the
\* text inside its first fenced block, without fences, tag and the whitespace
\* around it, also when SELECT was put before the completion.
C23_FencedBlockIsCandidate ==
    chain.ran /\ Cardinality({i \in 1..Len(chain.text) : chain.text[i] = Fence}) >= 2 =>
       chain.out = InsideFirstFence(chain.text)

C23_Witness ==
    /\ chain.ran
    /\ chain.text = <<Fence, "SQL", "\n", "SELECT", " ", "1;", "\n", Fence>>
    /\ PrependSelect(chain.text) # chain.text
    /\ chain.out = <<"SELECT", " ", "1;">>

\* the text behind the first colon of s
AfterFirstColon(s) ==
    SubSeq(s, 1 + (CHOOSE i \in 1..Len(s) : s[i] = ":" /\ \A j \in 1..(i - 1) : s[j] # ":"),
           Len(s))

\* C24, as claimed: a completion without fenced block that begins with a
\* filler opener followed by text up to a colon gives a candidate without
\* that preamble: the text behind the first colon, with or without the
\* SELECT that the controller puts before a text that lacks it.
C24_PreambleRemoved ==
    /\ chain.ran
    /\ Cardinality({i \in 1..Len(chain.text) : chain.text[i] = Fence}) < 2
    /\ Strip(chain.text) # <<>>
    /\ IsFiller(Strip(chain.text)[1])
    /\ \E i \in 1..Len(chain.text) : chain.text[i] = ":"
    => chain.out \in {Strip(AfterFirstColon(chain.text)),
                      Strip(PrependSelect(Strip(AfterFirstColon(chain.text))))}

\* C25, as claimed: a candidate that holds SELECT or WITH begins with it.
C25_CandidateBeginsWithKeyword ==
    chain.ran /\ (\E i \in 1..Len(chain.out) : IsKeyword(chain.out[i])) =>
       IsKeyword(chain.out[1])

\* C26: the chain is total and deterministic. On every completion (the empty
\* text, a fence without its closing one and a text without keyword among
\* them) no statement of it raises: each statement, whatever the frame it
\* finds, gives the frame to the statement behind it, and none to the except
\* clause, so that the fourth leaves one text as the candidate, made of
\* tokens of the completion (with or without the whitespace at their ends) and
\* of the SELECT put before it. In the next attempt of the call, with the
\* first candidate rejected and held in the locals of the loop, the same
\* completion gives the same candidate.
C26_ChainIsTotalAndDeterministic ==
    /\ [](chain.at # "raised")
    /\ [][/\ chain.at = "prepend" => chain'.at = "search"
          /\ chain.at = "search" => chain'.at = "clean"
          /\ chain.at = "clean" => chain'.at = "keep"
          /\ chain.at = "keep" =>
                /\ chain'.at = "kept"
                /\ chain'.last_generated_sql = chain.sql
                /\ chain'.last_generated_sql \in {chain'.out, chain'.out2}]_vars
    /\ [](chain.ran =>
            /\ DOMAIN chain.out = 1..Len(chain.out)
            /\ \A i \in 1..Len(chain.out) :
                  \/ chain.out[i] \in {"SELECT", " "}
                  \/ \E j \in 1..Len(chain.text) :
                        \/ chain.text[j] = chain.out[i]
                        \/ Strip(<<chain.text[j]>>) = <<chain.out[i]>>)
    /\ [](chain.reran => chain.out2 = chain.out)

C26_Witness ==
    /\ chain.reran
    /\ chain.text = <<Fence, "sql", "x">>
    /\ chain.current_attempt = 1
    /\ chain.error_history # <<>>
    /\ chain.previous_sql_signatures = {chain.out}
    /\ ~chain.match.found
    /\ chain.out = <<"SELECT", " ", Fence, "sql", "x">>
    /\ chain.out2 = chain.out

(***************************************************************************)
(* The synthesis path and the knowledge store.                             *)
(***************************************************************************)
\* a knowledge base is present: the store of data/lancedb is there and holds
\* the collection of learned queries, which the acquisition programs fill
\* through a KnowledgeBase of their own (expert_miner.py:12, sql_orchestra.py:37)
KnowledgeBasePresent == "learned_queries" \in tableNames

\* a learn call is made and returns in this step
LearnCall == pc = "done" /\ learnCalls' = learnCalls + 1 /\ pc' = "idle"

C28_ScriptAddsItsSnippet ==
    script.at \in {"added", "passed"} /\ script.existed =>
       Cardinality({i \in 1..Len(docs) : docs[i].source = script.source}) = 1

(***************************************************************************)
(* Properties of Trainer.                                                  *)
(***************************************************************************)
\* C29, as claimed: train comes to its end whatever generate_ground_truth and
\* the student give; generate_ground_truth makes at most 5 LLM calls and
\* returns no pair whose hash it has seen.
C29_TrainTerminates ==
    /\ <>(trainer.at = "complete")
    /\ [](trainer.tries <= GroundTruthRetries)
    /\ [][trainer.at = "gen" /\ trainer'.pair # NoPair =>
             /\ trainer'.pair.q_hash \notin trainer.seen_hashes
             /\ trainer'.seen_hashes = trainer.seen_hashes \cup {trainer'.pair.q_hash}]_vars

====
